---- MODULE Spec2Model ----
(***************************************************************************)
(* Model of the eXeLearning style converter (v2.9 -> v3.0).                *)
(*                                                                         *)
(* Script text is modelled as a sequence of lexemes.  Every character the  *)
(* brace scanner gives a meaning to ({ } " ' backtick \) is a lexeme of its own,  *)
(* so scanning a sequence of lexemes changes the scanner state exactly as  *)
(* scanning the characters does; every other lexeme is a run of characters *)
(* that contains none of them.  The regular expressions of the source are  *)
(* patterns over lexemes, matched with JavaScript's leftmost, priority-    *)
(* ordered (backtracking) semantics.                                       *)
(***************************************************************************)
EXTENDS Integers, Sequences, FiniteSets, TLC

VARIABLES
    jsFile,             \* whether the input style holds a script file
    jsContent,          \* the text of that file (the old script)
    pc,                 \* position of the run
    analysis,           \* StyleAnalyzer.analysis
    runs,               \* calls of analyze() on the analyzer instance
    sections,           \* the list returned by extractCustomCode
    customCodeSections, \* JavaScriptTransformer.customCodeSections
    content,            \* transform().content
    stylesNew,          \* the style.js of each template under styles-new/
    scan,               \* locals of extractFunction / extractCommonInit
    conv,               \* StyleConverter.convert: options, position, files written
    batch,              \* StyleConverter.convertBatch: listing, position, results
    assets,             \* the input directory, the CSS references, the files copied
    app                 \* the browser App: the Map, the uploads, the button

vars == <<jsFile, jsContent, pc, analysis, runs, sections, customCodeSections,
          content, stylesNew, scan, conv, batch, assets,
          app>>

pipeVars == <<analysis, runs, sections, customCodeSections, content, stylesNew>>

driverVars == <<conv, batch, assets, app>>

-----------------------------------------------------------------------------
(* Bounds *)

\* longest block body (lexemes after the opening brace) the scanner is fed
MaxBody == 5

\* most top-level function declarations in an input script
MaxFns == 3

\* most blocks of a hundred plain code lines in an input script
MaxFill == 3

\* most calls of analyze() on one analyzer instance
MaxRuns == 2

\* entries in the directory given to convertBatch
MaxStyles == 3

\* entries of an input directory
MaxFiles == 2

-----------------------------------------------------------------------------
(* Lexemes *)

\* the backtick is written "bt"
Quotes == {"\"", "'", "bt"}

IsWs(t) == t \in {" ", "\n", "    "}

\* JavaScript's null for a string result; an empty string is falsy as well
NoSpan == <<>>

\* the smallest element of a non-empty set of positions
Least(S) == CHOOSE x \in S : \A y \in S : x <= y

-----------------------------------------------------------------------------
(* Regular expressions over lexemes.  A pattern is a sequence of elements: *)
(*   lit   one given lexeme            ws*   \s*   (greedy)                *)
(*   q     ["']                        ws+   \s+   (greedy)                *)
(*   lazy  [\s\S]*?                    norp  [^)]* (greedy)                *)
(*   opt   lexeme?  (greedy)           eoi   $     (no m flag)             *)

Lit(t)  == [k |-> "lit", v |-> t]
Opt(t)  == [k |-> "opt", v |-> t]
WsStar  == [k |-> "ws*", v |-> ""]
WsPlus  == [k |-> "ws+", v |-> ""]
Lazy    == [k |-> "lazy", v |-> ""]
NoRp    == [k |-> "norp", v |-> ""]
QuoteCl == [k |-> "q", v |-> ""]
Eoi     == [k |-> "eoi", v |-> ""]

\* M(pat, k, code, i): the position after the match of pat[k..] that starts
\* at position i of code, following the engine's order of preference;
\* 0 when there is none.
RECURSIVE M(_, _, _, _)
M(pat, k, code, i) ==
    IF k > Len(pat) THEN i
    ELSE LET e == pat[k]
             more == i <= Len(code)
         IN CASE e.k = "lit" ->
                    IF more /\ code[i] = e.v THEN M(pat, k + 1, code, i + 1) ELSE 0
              [] e.k = "q" ->
                    IF more /\ code[i] \in {"\"", "'"} THEN M(pat, k + 1, code, i + 1) ELSE 0
              [] e.k = "eoi" ->
                    IF i = Len(code) + 1 THEN M(pat, k + 1, code, i) ELSE 0
              [] e.k = "opt" ->
                    LET r == IF more /\ code[i] = e.v THEN M(pat, k + 1, code, i + 1) ELSE 0
                    IN IF r # 0 THEN r ELSE M(pat, k + 1, code, i)
              [] e.k = "lazy" ->
                    \* the shortest run after which the rest matches
                    LET js == {j \in i..(Len(code) + 1) : M(pat, k + 1, code, j) # 0}
                    IN IF js = {} THEN 0
                       ELSE M(pat, k + 1, code, CHOOSE j \in js : \A h \in js : j <= h)
              [] e.k = "ws*" ->
                    LET r == IF more /\ IsWs(code[i]) THEN M(pat, k, code, i + 1) ELSE 0
                    IN IF r # 0 THEN r ELSE M(pat, k + 1, code, i)
              [] e.k = "ws+" ->
                    IF more /\ IsWs(code[i])
                    THEN LET r == M(pat, k, code, i + 1)
                         IN IF r # 0 THEN r ELSE M(pat, k + 1, code, i + 1)
                    ELSE 0
              [] e.k = "norp" ->
                    LET r == IF more /\ code[i] # ")" THEN M(pat, k, code, i + 1) ELSE 0
                    IN IF r # 0 THEN r ELSE M(pat, k + 1, code, i)

\* String.prototype.match without the g flag: the leftmost match.
\* index = 0 stands for null; end is the position of the last lexeme matched.
\* (Every pattern of the source begins with a literal, so a match starts
\* where that lexeme stands.)
Match(code, pat) ==
    LET starts == {s \in 1..Len(code) :
                      code[s] = pat[1].v /\ M(pat, 2, code, s + 1) # 0}
    IN IF starts = {} THEN [index |-> 0, end |-> 0]
       ELSE LET s == CHOOSE x \in starts : \A y \in starts : x <= y
            IN [index |-> s, end |-> M(pat, 2, code, s + 1) - 1]

-----------------------------------------------------------------------------
(* JavaScriptTransformer.extractFunction / extractCommonInit               *)

\* new RegExp(`${functionName}\\s*:\\s*function\\s*\\([^)]*\\)\\s*{`)
StartRegex(functionName) ==
    <<Lit(functionName), WsStar, Lit(":"), WsStar, Lit("function"), WsStar,
      Lit("("), NoRp, Lit(")"), WsStar, Lit("{")>>

\* /common\s*:\s*{/
CommonRegex == <<Lit("common"), WsStar, Lit(":"), WsStar, Lit("{")>>

\* let braceCount = 0; let inString = false; let stringChar = null; let escaped = false;
ScanInit ==
    [braceCount |-> 0, inString |-> FALSE, stringChar |-> "null",
     escaped |-> FALSE, found |-> FALSE]

\* ScanChar with the braces inside strings counted as well
ScanChar_BracesInStrings(st, char) ==
    IF st.escaped THEN [st EXCEPT !.escaped = FALSE]
    ELSE IF char = "\\" THEN [st EXCEPT !.escaped = TRUE]
    ELSE IF ~st.inString /\ char \in Quotes
         THEN [st EXCEPT !.inString = TRUE, !.stringChar = char]
    ELSE IF st.inString /\ char = st.stringChar
         THEN [st EXCEPT !.inString = FALSE, !.stringChar = "null"]
    ELSE IF char = "{" THEN [st EXCEPT !.braceCount = @ + 1]
    ELSE IF char = "}"
         THEN [st EXCEPT !.braceCount = @ - 1, !.found = (st.braceCount - 1 = 0)]
    ELSE st

\* ScanChar returning at the first closing brace outside strings
ScanChar_FirstClosingBrace(st, char) ==
    IF st.escaped THEN [st EXCEPT !.escaped = FALSE]
    ELSE IF char = "\\" THEN [st EXCEPT !.escaped = TRUE]
    ELSE IF ~st.inString /\ char \in Quotes
         THEN [st EXCEPT !.inString = TRUE, !.stringChar = char]
    ELSE IF st.inString /\ char = st.stringChar
         THEN [st EXCEPT !.inString = FALSE, !.stringChar = "null"]
    ELSE IF ~st.inString
         THEN IF char = "{" THEN [st EXCEPT !.braceCount = @ + 1]
              ELSE IF char = "}"
                   THEN [st EXCEPT !.braceCount = @ - 1, !.found = TRUE]
                   ELSE st
    ELSE st

\* ScanChar with the backslash handled inside strings only
ScanChar_EscapeInStringsOnly(st, char) ==
    IF st.escaped THEN [st EXCEPT !.escaped = FALSE]
    ELSE IF st.inString /\ char = "\\" THEN [st EXCEPT !.escaped = TRUE]
    ELSE IF ~st.inString /\ char \in Quotes
         THEN [st EXCEPT !.inString = TRUE, !.stringChar = char]
    ELSE IF st.inString /\ char = st.stringChar
         THEN [st EXCEPT !.inString = FALSE, !.stringChar = "null"]
    ELSE IF ~st.inString
         THEN IF char = "{" THEN [st EXCEPT !.braceCount = @ + 1]
              ELSE IF char = "}"
                   THEN [st EXCEPT !.braceCount = @ - 1,
                                   !.found = (st.braceCount - 1 = 0)]
                   ELSE st
    ELSE st

\* One iteration of the for loop on one character; found: the return inside
\* the loop was taken.
ScanChar(st, char) ==
    IF st.escaped THEN [st EXCEPT !.escaped = FALSE]
    ELSE IF char = "\\" THEN [st EXCEPT !.escaped = TRUE]
    ELSE IF ~st.inString /\ char \in Quotes
         THEN [st EXCEPT !.inString = TRUE, !.stringChar = char]
    ELSE IF st.inString /\ char = st.stringChar
         THEN [st EXCEPT !.inString = FALSE, !.stringChar = "null"]
    ELSE IF ~st.inString
         THEN IF char = "{" THEN [st EXCEPT !.braceCount = @ + 1]
              ELSE IF char = "}"
                   THEN [st EXCEPT !.braceCount = @ - 1,
                                   !.found = (st.braceCount - 1 = 0)]
                   ELSE st
    ELSE st

\* The iterations for the positions lo..hi, from the loop state w = [st, at];
\* at: the position at which the loop returned (0: it did not yet).  The
\* range is split in halves, which keeps the evaluation shallow; the
\* characters are read one by one, in order, until the return.
RECURSIVE ScanRange(_, _, _, _)
ScanRange(code, lo, hi, w) ==
    IF w.at # 0 \/ lo > hi THEN w
    ELSE IF lo = hi
         THEN LET nx == ScanChar(w.st, code[lo])
              IN [st |-> nx, at |-> IF nx.found THEN lo ELSE 0]
    ELSE LET mid == (lo + hi) \div 2
         IN ScanRange(code, mid + 1, hi, ScanRange(code, lo, mid, w))

\* The loop from position i on: the position of the closing brace, 0 when
\* the end of the text is reached first.
ScanLoop(code, i, st) == ScanRange(code, i, Len(code), [st |-> st, at |-> 0]).at

\* StartIndex without the - 1: the scan starts after the opening brace
StartIndex_AfterBrace(m) == m.end + 1

\* startMatch.index + startMatch[0].length - 1, one-based
StartIndex(m) == m.end

\* the slice taken from the opening brace, without the declaration
FunctionSpan_FromBrace(code, m, i) == SubSeq(code, StartIndex(m), i)

\* the value returned when the closing brace is found at position i
FunctionSpan(code, m, i) == SubSeq(code, m.index, i)
CommonSpan(code, m, i) == <<"common", ":", " ">> \o SubSeq(code, StartIndex(m), i)

ExtractFunction(code, functionName) ==
    LET m == Match(code, StartRegex(functionName))
    IN IF m.index = 0 THEN NoSpan
       ELSE LET i == ScanLoop(code, StartIndex(m), ScanInit)
            IN IF i = 0 THEN NoSpan ELSE FunctionSpan(code, m, i)

ExtractCommonInit(code) ==
    LET m == Match(code, CommonRegex)
    IN IF m.index = 0 THEN NoSpan
       ELSE LET i == ScanLoop(code, StartIndex(m), ScanInit)
            IN IF i = 0 THEN NoSpan ELSE CommonSpan(code, m, i)

-----------------------------------------------------------------------------
(* JavaScriptTransformer: the regex-anchored extractions                    *)

\* /document\.addEventListener\s*\(\s*["']DOMContentLoaded["']\s*,\s*\(event\)\s*=>\s*{[\s\S]*?\.udl-character[\s\S]*?}\);/
DomContentRegex ==
    <<Lit("document.addEventListener"), WsStar, Lit("("), WsStar, QuoteCl,
      Lit("DOMContentLoaded"), QuoteCl, WsStar, Lit(","), WsStar, Lit("("),
      Lit("event"), Lit(")"), WsStar, Lit("=>"), WsStar, Lit("{"), Lazy,
      Lit(".udl-character"), Lazy, Lit("}"), Lit(")"), Lit(";")>>

\* /if\s*\(\s*typeof\s+\$exeDevice\s*!==\s*["']undefined["']\s*\)\s*{[\s\S]*?\$exeDevice\.characters[\s\S]*?}/
ExeDeviceRegex ==
    <<Lit("if"), WsStar, Lit("("), WsStar, Lit("typeof"), WsPlus,
      Lit("$exeDevice"), WsStar, Lit("!=="), WsStar, QuoteCl, Lit("undefined"),
      QuoteCl, WsStar, Lit(")"), WsStar, Lit("{"), Lazy,
      Lit("$exeDevice.characters"), Lazy, Lit("}")>>

\* /\/\/ H5P iframe Resizer[\s\S]*?\(function\s*\(\)\s*{[\s\S]*?}\)\(\);/
H5PRegex ==
    <<Lit("// H5P iframe Resizer"), Lazy, Lit("("), Lit("function"), WsStar,
      Lit("("), Lit(")"), WsStar, Lit("{"), Lazy, Lit("}"), Lit(")"), Lit("("),
      Lit(")"), Lit(";")>>

\* /\/\/Phase management[\s\S]*?$("#nodeDecoration")\.addClass[\s\S]*?}/
\* the $ is not escaped: it is the end-of-input assertion, and the
\* parentheses after it form a group around "#nodeDecoration"
PhaseRegex ==
    <<Lit("//Phase management"), Lazy, Eoi, Lit("\""), Lit("#nodeDecoration"),
      Lit("\""), Lit(".addClass"), Lazy, Lit("}")>>

\* match[0], or null
Matched(code, pat) ==
    LET m == Match(code, pat)
    IN IF m.index = 0 THEN NoSpan ELSE SubSeq(code, m.index, m.end)

ExtractCharacterManagement(code) ==
    LET dom == Matched(code, DomContentRegex)
        exe == Matched(code, ExeDeviceRegex)
    IN IF dom # NoSpan /\ exe # NoSpan THEN dom \o <<"\n", "\n">> \o exe
       ELSE IF dom # NoSpan THEN dom
       ELSE exe

ExtractH5PResizer(code) == Matched(code, H5PRegex)

ExtractPhaseManagement(code) == Matched(code, PhaseRegex)

Section(name, code, location) == [name |-> name, code |-> code, location |-> location]

\* the steps of extractCustomCode, in the order of the source; each yields
\* the section it pushes and the name it pushes to customCodeSections
ExtractionStep(k, code) ==
    CASE k = 1 -> [flag |-> "hasPrintContent",
                   sec |-> Section("printContent function",
                                   ExtractFunction(code, "printContent"), "myTheme object"),
                   pushed |-> "printContent()"]
      [] k = 2 -> [flag |-> "hasCommonInit",
                   sec |-> Section("common.init function",
                                   ExtractCommonInit(code), "myTheme object"),
                   pushed |-> "common.init()"]
      [] k = 3 -> [flag |-> "hasCharacters",
                   sec |-> Section("Character management",
                                   ExtractCharacterManagement(code), "after main code"),
                   pushed |-> "Character management"]
      [] k = 4 -> [flag |-> "hasH5P",
                   sec |-> Section("H5P iframe resizer",
                                   ExtractH5PResizer(code), "after main code"),
                   pushed |-> "H5P iframe resizer"]
      [] k = 5 -> [flag |-> "hasPhaseManagement",
                   sec |-> Section("Phase management",
                                   ExtractPhaseManagement(code), "common.init"),
                   pushed |-> "Phase management"]

\* StepsTaken giving up at the first flagged extraction that fails
RECURSIVE StepsTaken_StopAtFailure(_, _, _, _)
StepsTaken_StopAtFailure(order, n, custom, code) ==
    IF n > Len(order) THEN <<>>
    ELSE LET stp == ExtractionStep(order[n], code)
         IN IF custom[stp.flag] /\ stp.sec.code = NoSpan THEN <<>>
            ELSE (IF custom[stp.flag] THEN <<stp>> ELSE <<>>)
                 \o StepsTaken_StopAtFailure(order, n + 1, custom, code)

\* the list of the steps that push: the flag is set and the extraction
\* returned a truthy value
RECURSIVE StepsTaken(_, _, _, _)
StepsTaken(order, n, custom, code) ==
    IF n > Len(order) THEN <<>>
    ELSE LET stp == ExtractionStep(order[n], code)
         IN (IF custom[stp.flag] /\ stp.sec.code # NoSpan THEN <<stp>> ELSE <<>>)
            \o StepsTaken(order, n + 1, custom, code)

\* extractCustomCode with the H5P resizer extracted before the characters
ExtractCustomCode_H5PFirst(a) ==
    IF a.jsContent = <<>> THEN <<>>
    ELSE StepsTaken(<<1, 2, 4, 3, 5>>, 1, a.customCode, a.jsContent)

\* extractCustomCode: [sections, pushed]; '' (no sections) without old script
ExtractCustomCode(a) ==
    IF a.jsContent = <<>> THEN <<>>
    ELSE StepsTaken(<<1, 2, 3, 4, 5>>, 1, a.customCode, a.jsContent)

-----------------------------------------------------------------------------
(* JavaScriptTransformer.integrateCustomCode                                *)

\* /(params\s*:\s*function\s*\([^)]*\)\s*{[\s\S]*?}\s*,?\s*\n)/
ParamsEndRegex ==
    <<Lit("params"), WsStar, Lit(":"), WsStar, Lit("function"), WsStar,
      Lit("("), NoRp, Lit(")"), WsStar, Lit("{"), Lazy, Lit("}"), WsStar,
      Opt(","), WsStar, Lit("\n")>>

FunctionsMarker == "// === CUSTOM FUNCTIONS PRESERVED FROM v2.9 ==="
CodeMarker == "// === CUSTOM CODE PRESERVED FROM v2.9 ==="

\* join that leaves the separator out
RECURSIVE Join_NoSeparator(_, _)
Join_NoSeparator(texts, sep) ==
    IF texts = <<>> THEN <<>>
    ELSE texts[1] \o Join_NoSeparator(Tail(texts), sep)

\* Array.prototype.join over texts
RECURSIVE Join(_, _)
Join(texts, sep) ==
    IF texts = <<>> THEN <<>>
    ELSE IF Len(texts) = 1 THEN texts[1]
    ELSE texts[1] \o sep \o Join(Tail(texts), sep)

\* code.endsWith(',') ? code : code + ','
WithComma(code) ==
    IF code # <<>> /\ code[Len(code)] = "," THEN code ELSE code \o <<",">>

\* Codes keeping the first section of a group only
Codes_FirstOnly(secs, withComma) ==
    IF secs = <<>> THEN <<>>
    ELSE <<IF withComma THEN WithComma(secs[1].code) ELSE secs[1].code>>

\* the codes of the sections of a group, with a comma ensured for the
\* members of the object
RECURSIVE Codes(_, _)
Codes(secs, withComma) ==
    IF secs = <<>> THEN <<>>
    ELSE <<IF withComma THEN WithComma(secs[1].code) ELSE secs[1].code>>
         \o Codes(Tail(secs), withComma)

\* every section of the second group under a marker of its own
RECURSIVE MarkedEach(_)
MarkedEach(secs) ==
    IF secs = <<>> THEN <<>>
    ELSE <<"\n", CodeMarker, "\n">> \o secs[1].code \o <<"\n">> \o MarkedEach(Tail(secs))

\* integrateCustomCode writing a marker in front of every appended section
IntegrateCustomCode_MarkerEach(newJS, customSections) ==
    IF customSections = <<>> THEN newJS
    ELSE LET myThemeSections ==
                 SelectSeq(customSections, LAMBDA x : x.location = "myTheme object")
             afterCodeSections ==
                 SelectSeq(customSections, LAMBDA x : x.location = "after main code")
             paramsEndMatch == Match(newJS, ParamsEndRegex)
             insertPos == paramsEndMatch.end
             customFunctions == Join(Codes(myThemeSections, TRUE), <<"\n", "\n", "    ">>)
             result1 ==
                 IF myThemeSections # <<>> /\ paramsEndMatch.index # 0
                 THEN SubSeq(newJS, 1, insertPos)
                      \o <<"\n", "    ", FunctionsMarker, "\n", "    ">>
                      \o customFunctions \o <<"\n">>
                      \o SubSeq(newJS, insertPos + 1, Len(newJS))
                 ELSE newJS
         IN result1 \o MarkedEach(afterCodeSections)

\* integrateCustomCode writing the marker of the second group whether or not
\* the group has sections
IntegrateCustomCode_AlwaysAppends(newJS, customSections) ==
    LET myThemeSections ==
            SelectSeq(customSections, LAMBDA x : x.location = "myTheme object")
        afterCodeSections ==
            SelectSeq(customSections, LAMBDA x : x.location = "after main code")
        paramsEndMatch == Match(newJS, ParamsEndRegex)
        insertPos == paramsEndMatch.end
        customFunctions == Join(Codes(myThemeSections, TRUE), <<"\n", "\n", "    ">>)
        result1 ==
            IF myThemeSections # <<>> /\ paramsEndMatch.index # 0
            THEN SubSeq(newJS, 1, insertPos)
                 \o <<"\n", "    ", FunctionsMarker, "\n", "    ">>
                 \o customFunctions \o <<"\n">>
                 \o SubSeq(newJS, insertPos + 1, Len(newJS))
            ELSE newJS
    IN result1 \o <<"\n", CodeMarker, "\n">>
       \o Join(Codes(afterCodeSections, FALSE), <<"\n", "\n">>) \o <<"\n">>

\* integrateCustomCode writing the block of the functions over the line
\* that follows the insertion point: slice(insertPos + 1)
IntegrateCustomCode_Overwrites(newJS, customSections) ==
    IF customSections = <<>> THEN newJS
    ELSE LET myThemeSections ==
                 SelectSeq(customSections, LAMBDA x : x.location = "myTheme object")
             afterCodeSections ==
                 SelectSeq(customSections, LAMBDA x : x.location = "after main code")
             paramsEndMatch == Match(newJS, ParamsEndRegex)
             insertPos == paramsEndMatch.end
             customFunctions == Join(Codes(myThemeSections, TRUE), <<"\n", "\n", "    ">>)
             result1 ==
                 IF myThemeSections # <<>> /\ paramsEndMatch.index # 0
                 THEN SubSeq(newJS, 1, insertPos)
                      \o <<"\n", "    ", FunctionsMarker, "\n", "    ">>
                      \o customFunctions \o <<"\n">>
                      \o SubSeq(newJS, insertPos + 2, Len(newJS))
                 ELSE newJS
         IN IF afterCodeSections # <<>>
            THEN result1 \o <<"\n", CodeMarker, "\n">>
                 \o Join(Codes(afterCodeSections, FALSE), <<"\n", "\n">>) \o <<"\n">>
            ELSE result1

\* integrateCustomCode: the template with the sections of the object after
\* the params member and the other sections at the end
IntegrateCustomCode(newJS, customSections) ==
    IF customSections = <<>> THEN newJS
    ELSE LET myThemeSections ==
                 SelectSeq(customSections, LAMBDA x : x.location = "myTheme object")
             afterCodeSections ==
                 SelectSeq(customSections, LAMBDA x : x.location = "after main code")
             paramsEndMatch == Match(newJS, ParamsEndRegex)
             insertPos == paramsEndMatch.end
             customFunctions == Join(Codes(myThemeSections, TRUE), <<"\n", "\n", "    ">>)
             result1 ==
                 IF myThemeSections # <<>> /\ paramsEndMatch.index # 0
                 THEN SubSeq(newJS, 1, insertPos)
                      \o <<"\n", "    ", FunctionsMarker, "\n", "    ">>
                      \o customFunctions \o <<"\n">>
                      \o SubSeq(newJS, insertPos + 1, Len(newJS))
                 ELSE newJS
         IN IF afterCodeSections # <<>>
            THEN result1 \o <<"\n", CodeMarker, "\n">>
                 \o Join(Codes(afterCodeSections, FALSE), <<"\n", "\n">>) \o <<"\n">>
            ELSE result1

-----------------------------------------------------------------------------
(* The v3.0 templates (styles-new/<name>/style.js)                          *)

TemplateHead ==
    <<"var", " ", "myTheme", " ", "=", " ", "{", "\n",
      "    ", "init", ":", " ", "function", "(", ")", " ", "{", "}", ",", "\n",
      "    ", "param", ":", " ", "function", "(", "e", ",", " ", "act", ")", " ", "{", "}", ",", "\n",
      "    ", "params", ":", " ", "function", "(", "act", ")", " ", "{", "\n",
      "$", "(", "'", ".nav-buttons a", "'", ")", ".each", "(", "function", "(", ")",
      " ", "{", "}", ")", ";", "\n",
      "    ", "}">>

\* what follows the params member in each template
TemplateTail(name) ==
    IF name = "neo"
    THEN <<",", "\n", "    ", "movePageTitle", ":", " ", "function", "(", ")", " ",
           "{", "}", "\n", "}", ";", "\n">>
    ELSE <<"\n", "}", ";", "\n">>

TemplateJs(name) == TemplateHead \o TemplateTail(name)

\* a params body with a block of its own, closed at the end of a line
TemplateHeadNested ==
    <<"var", " ", "myTheme", " ", "=", " ", "{", "\n",
      "    ", "init", ":", " ", "function", "(", ")", " ", "{", "}", ",", "\n",
      "    ", "param", ":", " ", "function", "(", "e", ",", " ", "act", ")", " ", "{", "}", ",", "\n",
      "    ", "params", ":", " ", "function", "(", "act", ")", " ", "{", "\n",
      "if", " ", "(", "act", ")", " ", "{", "\n",
      "x", ";", "\n",
      "}", "\n",
      "$", "(", "'", ".nav-buttons a", "'", ")", ".each", "(", "function", "(", ")",
      " ", "{", "}", ")", ";", "\n",
      "    ", "}">>

TemplateNames == {"base", "neo"}

\* the two style.js files as documented
Documented == [name \in TemplateNames |-> TemplateJs(name)]

\* the style.js files with either params body
TemplateStores ==
    { [name \in TemplateNames |->
          (IF name \in nested THEN TemplateHeadNested ELSE TemplateHead)
          \o TemplateTail(name)] : nested \in SUBSET TemplateNames }

-----------------------------------------------------------------------------
(* StyleAnalyzer                                                            *)

\* the analysis object set up by the constructor
NewAnalysis ==
    [complexity |-> "simple",
     template |-> "base",
     jsFile |-> FALSE,
     jsContent |-> <<>>,
     customCode |-> [hasH5P |-> FALSE, hasCharacters |-> FALSE,
                     hasPhaseManagement |-> FALSE, hasPrintContent |-> FALSE,
                     hasCommonInit |-> FALSE, customFunctions |-> <<>>,
                     linesOfCode |-> 0]]

\* the lexemes that hold a probed substring
Holding(probe) ==
    CASE probe = "H5P iframe Resizer" -> {"// H5P iframe Resizer"}
      [] probe = "nodeDecoration" -> {"#nodeDecoration"}
      [] OTHER -> {probe}

\* content.includes(probe)
Includes(code, probe) == \E i \in 1..Len(code) : code[i] \in Holding(probe)

\* a block of a hundred lines "x;\n"
Hundred == "x;\n * 100"

IsComment(t) == t \in {"//c", "//Phase management", "// H5P iframe Resizer"}

\* a lexeme that ends a line
EndsLine(t) == t \in {"\n", Hundred}

\* the positions at which a line of the text starts
LineStarts(code) ==
    {i \in 1..Len(code) : i = 1 \/ EndsLine(code[i - 1])}

\* the position of the lexeme that ends the line starting at i (one past
\* the text when nothing ends it)
LineEnd(code, i) ==
    LET ends == {e \in i..Len(code) : EndsLine(code[e])}
    IN IF ends = {} THEN Len(code) + 1
       ELSE CHOOSE e \in ends : \A f \in ends : e <= f

\* line.trim() && !line.trim().startsWith('//') for the line starting at i
IsCodeLine(code, i) ==
    LET e == LineEnd(code, i)
        inked == {j \in i..e : j <= Len(code) /\ ~IsWs(code[j])}
    IN /\ inked # {}
       /\ ~IsComment(code[CHOOSE j \in inked : \A h \in inked : j <= h])

\* the line count without the test line.trim(): blank lines count, the last
\* piece of the split included
LinesOfCode_CountsBlank(code) ==
    Cardinality({i \in LineStarts(code) :
                    LET e == LineEnd(code, i)
                        inked == {j \in i..e : j <= Len(code) /\ ~IsWs(code[j])}
                    IN inked = {} \/ ~IsComment(code[Least(inked)])})
    + 99 * Cardinality({i \in 1..Len(code) : code[i] = Hundred})
    + (IF code = <<>> \/ EndsLine(code[Len(code)]) THEN 1 ELSE 0)

\* content.split('\n').filter(line => line.trim() && !line.trim().startsWith('//')).length
LinesOfCode(code) ==
    Cardinality({i \in LineStarts(code) : IsCodeLine(code, i)})
    + 99 * Cardinality({i \in 1..Len(code) : code[i] = Hundred})

FnNames == {"f1", "f2", "f3", "f4", "f5"}

FnNameOf(n) == <<"f1", "f2", "f3", "f4", "f5">>[((n - 1) % 5) + 1]

\* \w+ on a lexeme
IsWord(t) ==
    t \in FnNames \cup {"init", "common", "printContent", "function", "var", "if",
                        "typeof", "id", "c", "s", "x", "event", "imx", "true"}

\* the text of a match of /^function\s+(\w+)/, trimmed
FnLabel(name) ==
    CASE name = "f1" -> "function f1"
      [] name = "f2" -> "function f2"
      [] name = "f3" -> "function f3"
      [] name = "f4" -> "function f4"
      [] name = "f5" -> "function f5"
      [] OTHER -> "function"

\* the position of the name when /^function\s+(\w+)/m matches at i, else 0
DeclaredAt(code, i) ==
    IF /\ code[i] = "function"
       /\ (i = 1 \/ EndsLine(code[i - 1]))
       /\ i + 2 <= Len(code)
       /\ IsWs(code[i + 1])
    THEN LET js == {j \in (i + 2)..Len(code) : ~IsWs(code[j])}
             j == CHOOSE x \in js : \A y \in js : x <= y
         IN IF js # {} /\ IsWord(code[j]) THEN j ELSE 0
    ELSE 0

\* the labels of the matches at the positions after i, in order
RECURSIVE LabelsAfter(_, _)
LabelsAfter(code, i) ==
    LET at == {x \in (i + 1)..Len(code) : DeclaredAt(code, x) # 0}
    IN IF at = {} THEN <<>>
       ELSE LET x == CHOOSE a \in at : \A b \in at : a <= b
            IN <<FnLabel(code[DeclaredAt(code, x)])>> \o LabelsAfter(code, x)

\* content.match(/^function\s+(\w+)/gm): with the m flag ^ stands at the start
\* of the text and after every line break
TopLevelFunctions(code, i) == LabelsAfter(code, i - 1)

\* push of a feature label when its probe holds
Push(list, cond, label) == IF cond THEN Append(list, label) ELSE list

\* analyzeJavaScript on the analysis object a, for the input (file, text)
AnalyzeJavaScript(a, file, text) ==
    IF ~file THEN a
    ELSE LET c == a.customCode
             h5p == Includes(text, "h5pResizerInitialized") \/ Includes(text, "H5P iframe Resizer")
             chr == Includes(text, "$exeDevice.characters") \/ Includes(text, ".udl-character")
             pha == \/ Includes(text, "nodeSubSection")
                    \/ Includes(text, "nodeSection")
                    \/ Includes(text, "nodeDecoration")
             prt == Includes(text, "printContent") /\ Includes(text, "function")
             com == /\ Includes(text, "common")
                    /\ Includes(text, "init")
                    /\ Match(text, CommonRegex).index # 0
             l1 == Push(c.customFunctions, h5p, "H5P iframe resizer")
             l2 == Push(l1, chr, "Character management")
             l3 == Push(l2, pha, "Phase management")
             l4 == Push(l3, prt, "printContent()")
             l5 == Push(l4, com, "common.init()")
         IN [a EXCEPT
               !.jsFile = TRUE,
               !.jsContent = text,
               !.customCode =
                   [hasH5P |-> c.hasH5P \/ h5p,
                    hasCharacters |-> c.hasCharacters \/ chr,
                    hasPhaseManagement |-> c.hasPhaseManagement \/ pha,
                    hasPrintContent |-> c.hasPrintContent \/ prt,
                    hasCommonInit |-> c.hasCommonInit \/ com,
                    customFunctions |-> l5 \o TopLevelFunctions(text, 1),
                    linesOfCode |-> LinesOfCode(text)]]

\* 300 lines of code make a style complex
ComplexLines == 300

\* more than 2 entries of customFunctions make a style moderate
ModerateFunctions == 2

\* determineComplexity with >= in place of > for the functions
DetermineComplexity_AtLeast(a) ==
    LET custom == a.customCode
    IN IF custom.hasH5P \/ custom.hasCharacters \/ custom.hasPhaseManagement
       THEN [a EXCEPT !.complexity = "complex"]
       ELSE IF custom.linesOfCode > ComplexLines
       THEN [a EXCEPT !.complexity = "complex"]
       ELSE IF \/ custom.hasPrintContent
               \/ custom.hasCommonInit
               \/ Len(custom.customFunctions) >= ModerateFunctions
       THEN [a EXCEPT !.complexity = "moderate"]
       ELSE [a EXCEPT !.complexity = "simple"]

\* determineComplexity taking a style for moderate by the number of its
\* custom functions alone
DetermineComplexity_FunctionsOnly(a) ==
    LET custom == a.customCode
    IN IF custom.hasH5P \/ custom.hasCharacters \/ custom.hasPhaseManagement
       THEN [a EXCEPT !.complexity = "complex"]
       ELSE IF custom.linesOfCode > ComplexLines
       THEN [a EXCEPT !.complexity = "complex"]
       ELSE IF Len(custom.customFunctions) > ModerateFunctions
       THEN [a EXCEPT !.complexity = "moderate"]
       ELSE [a EXCEPT !.complexity = "simple"]

\* determineComplexity with the line test after the test for moderate, and
\* not leading to complex
DetermineComplexity_LinesLast(a) ==
    LET custom == a.customCode
    IN IF custom.hasH5P \/ custom.hasCharacters \/ custom.hasPhaseManagement
       THEN [a EXCEPT !.complexity = "complex"]
       ELSE IF \/ custom.hasPrintContent
               \/ custom.hasCommonInit
               \/ Len(custom.customFunctions) > ModerateFunctions
       THEN [a EXCEPT !.complexity = "moderate"]
       ELSE IF custom.linesOfCode > ComplexLines
       THEN [a EXCEPT !.complexity = "moderate"]
       ELSE [a EXCEPT !.complexity = "simple"]

\* determineComplexity: complex features first, then the size, then the
\* signs of a moderate style
DetermineComplexity(a) ==
    LET custom == a.customCode
    IN IF custom.hasH5P \/ custom.hasCharacters \/ custom.hasPhaseManagement
       THEN [a EXCEPT !.complexity = "complex"]
       ELSE IF custom.linesOfCode > ComplexLines
       THEN [a EXCEPT !.complexity = "complex"]
       ELSE IF \/ custom.hasPrintContent
               \/ custom.hasCommonInit
               \/ Len(custom.customFunctions) > ModerateFunctions
       THEN [a EXCEPT !.complexity = "moderate"]
       ELSE [a EXCEPT !.complexity = "simple"]

\* selectTemplate giving neo to every style that is not simple
SelectTemplate_NeoUnlessSimple(a) ==
    IF a.complexity # "simple"
    THEN [a EXCEPT !.template = "neo"]
    ELSE [a EXCEPT !.template = "base"]

\* selectTemplate: neo for a complex style, base for the others
SelectTemplate(a) ==
    IF a.complexity = "complex"
    THEN [a EXCEPT !.template = "neo"]
    ELSE [a EXCEPT !.template = "base"]

\* analyze(): findFiles, analyzeJavaScript, determineComplexity, selectTemplate
AnalyzeAll(a, file, text) ==
    SelectTemplate(DetermineComplexity(AnalyzeJavaScript(a, file, text)))

\* BrowserStyleConverter.analyze: the analysis is computed from the text in
\* one go, without an analyzer object; the text is '' without a script
BrowserAnalyze(text) ==
    LET linesOfCode == LinesOfCode(text)
        hasH5P == Includes(text, "h5pResizerInitialized") \/ Includes(text, "H5P iframe Resizer")
        hasCharacters == Includes(text, "$exeDevice.characters") \/ Includes(text, ".udl-character")
        hasPhaseManagement == Includes(text, "nodeSubSection") \/ Includes(text, "nodeSection")
        hasPrintContent == Includes(text, "printContent") /\ Includes(text, "function")
        hasCommonInit == Includes(text, "common") /\ Match(text, CommonRegex).index # 0
        customFunctions ==
            Push(Push(Push(Push(Push(<<>>, hasH5P, "H5P iframe resizer"),
                                hasCharacters, "Character management"),
                           hasPhaseManagement, "Phase management"),
                      hasPrintContent, "printContent()"),
                 hasCommonInit, "common.init()")
        tier == IF hasH5P \/ hasCharacters \/ hasPhaseManagement \/ linesOfCode > ComplexLines
                THEN <<"complex", "neo">>
                ELSE IF \/ hasPrintContent
                        \/ hasCommonInit
                        \/ Len(customFunctions) > ModerateFunctions
                THEN <<"moderate", "base">>
                ELSE <<"simple", "base">>
    IN [complexity |-> tier[1],
        template |-> tier[2],
        jsContent |-> text,
        linesOfCode |-> linesOfCode,
        customCode |-> [hasH5P |-> hasH5P, hasCharacters |-> hasCharacters,
                        hasPhaseManagement |-> hasPhaseManagement,
                        hasPrintContent |-> hasPrintContent,
                        hasCommonInit |-> hasCommonInit,
                        customFunctions |-> customFunctions]]

\* BrowserStyleConverter.extractCustomCode: the texts matched, H5P first,
\* then the two pieces of the character management
BrowserExtractCustomCode(oldJS, customFlags) ==
    LET h5pMatch == Matched(oldJS, H5PRegex)
        charMatch == Matched(oldJS, DomContentRegex)
        devMatch == Matched(oldJS, ExeDeviceRegex)
    IN (IF customFlags.hasH5P /\ h5pMatch # NoSpan THEN <<h5pMatch>> ELSE <<>>)
       \o (IF customFlags.hasCharacters /\ charMatch # NoSpan THEN <<charMatch>> ELSE <<>>)
       \o (IF customFlags.hasCharacters /\ devMatch # NoSpan THEN <<devMatch>> ELSE <<>>)

\* BrowserStyleConverter.transformJavaScript, for the analysis a and the
\* style.js of the template it names
BrowserTransformJavaScript(a, js) ==
    IF a.complexity # "simple" /\ a.jsContent # <<>>
    THEN LET customCode == BrowserExtractCustomCode(a.jsContent, a.customCode)
         IN IF Len(customCode) > 0
            THEN js \o <<"\n", "\n", CodeMarker, "\n">>
                 \o Join(customCode, <<"\n", "\n">>)
            ELSE js
    ELSE js

-----------------------------------------------------------------------------
(* The scanner as a process: one action per loop iteration                 *)

ScanChars == {"{", "}", "\"", "'", "bt", "\\"}

Bodies == UNION {[1..n -> ScanChars] : n \in 0..MaxBody}

\* text before the declaration: an open brace and an open quote, which the
\* scan must not see
Preamble == <<"var", " ", "t", "=", "'", "{", "\n">>

HeadPrint == <<"printContent", ":", " ", "function", "(", "id", ")", " ", "{">>
HeadCommon == <<"common", " ", ":", "{">>

ScanSources == {Preamble \o h \o b : h \in {HeadPrint, HeadCommon}, b \in Bodies}

\* no convert() and no convertBatch() under way
ConvIdle == [dryRun |-> FALSE, createZip |-> FALSE, fails |-> "none",
             step |-> "idle", written |-> {}, results |-> <<>>]

BatchIdle == [styles |-> <<>>, i |-> 0, results |-> <<>>, step |-> "idle"]

AssetsIdle ==
    [files |-> <<>>, css |-> <<>>, found |-> <<>>, i |-> 0, output |-> {},
     migrations |-> <<>>, step |-> "idle"]

\* no page open
AppIdle ==
    [filesMap |-> {}, held |-> FALSE, uploads |-> <<>>, disabled |-> TRUE,
     spinner |-> FALSE, inFlight |-> 0, clicks |-> 0, handed |-> <<>>,
     lastLoaded |-> {}]

ScanIdle ==
    [fn |-> "none", m |-> [index |-> 0, end |-> 0], i |-> 0, st |-> ScanInit,
     steps |-> 0, result |-> NoSpan]

InitScan ==
    /\ jsFile = TRUE
    /\ jsContent \in ScanSources
    /\ pc = "call"
    /\ scan = ScanIdle
    /\ app = AppIdle
    /\ assets = AssetsIdle
    /\ analysis = NewAnalysis
    /\ runs = 0
    /\ sections = <<>>
    /\ customCodeSections = <<>>
    /\ content = <<>>
    /\ stylesNew = Documented
    /\ conv = ConvIdle
    /\ batch = BatchIdle

\* entry of either function: the declaration pattern is matched; without a
\* match the function returns null at once
ScanEnter(fn) ==
    /\ pc = "call"
    /\ LET m == IF fn = "extractFunction"
                THEN Match(jsContent, StartRegex("printContent"))
                ELSE Match(jsContent, CommonRegex)
       IN /\ scan' = [scan EXCEPT !.fn = fn, !.m = m, !.i = StartIndex(m)]
          /\ pc' = IF m.index = 0 THEN "returned" ELSE "loop"
    /\ UNCHANGED <<jsFile, jsContent, pipeVars, driverVars>>

\* one iteration: for (let i = startIndex; i < code.length; i++)
ScanIterate ==
    /\ pc = "loop"
    /\ scan.i <= Len(jsContent)
    /\ LET nx == ScanChar(scan.st, jsContent[scan.i])
       IN IF nx.found
          THEN /\ scan' = [scan EXCEPT !.st = nx, !.steps = @ + 1,
                             !.result = IF scan.fn = "extractFunction"
                                        THEN FunctionSpan(jsContent, scan.m, scan.i)
                                        ELSE CommonSpan(jsContent, scan.m, scan.i)]
               /\ pc' = "returned"
          ELSE /\ scan' = [scan EXCEPT !.st = nx, !.steps = @ + 1, !.i = @ + 1]
               /\ pc' = "loop"
    /\ UNCHANGED <<jsFile, jsContent, pipeVars, driverVars>>

\* the loop condition fails: return null
ScanExhausted ==
    /\ pc = "loop"
    /\ scan.i > Len(jsContent)
    /\ pc' = "returned"
    /\ UNCHANGED <<jsFile, jsContent, scan, pipeVars, driverVars>>

NextScan ==
    \/ \E fn \in {"extractFunction", "extractCommonInit"} : ScanEnter(fn)
    \/ ScanIterate
    \/ ScanExhausted

SpecScan == InitScan /\ [][NextScan]_vars

-----------------------------------------------------------------------------
(* Input scripts of the conversion run: for each of the five features one  *)
(* piece of old code (or none), laid out in some order, followed by        *)
(* top-level function declarations and blocks of plain code lines.         *)

PrintPieces ==
    { <<>>,
      \* the member function, with a brace inside a string and a nested block
      <<"printContent", ":", " ", "function", "(", "id", ")", " ", "{", "s", "=",
        "\"", "{", "\"", ";", "{", "}", "}", ",">>,
      \* its string never closes
      <<"printContent", ":", "function", "(", ")", "{", "\"", "}", ",">>,
      \* declared another way
      <<"printContent", " ", "=", " ", "function", "(", ")", " ", "{", "}", ";">>,
      \* only mentioned
      <<"x", "(", "'", "printContent", "'", ")", ";">> }

CommonPieces ==
    { <<>>,
      <<"common", ":", " ", "{", "init", ":", " ", "function", "(", "c", ")", " ",
        "{", "}", "}", ",">>,
      \* with the phase management inside init
      <<"common", ":", "{", "init", ":", "function", "(", "c", ")", "{", "\n",
        "//Phase management", "\n", "$", "(", "\"", "#nodeDecoration", "\"", ")",
        ".addClass", "(", "\"", "nodeSection", "\"", ")", ";", "\n", "}", "}", ",">>,
      \* the object never closes
      <<"common", ":", "{", "init", ":", "function", "(", ")", "{", "}">>,
      \* an object without init
      <<"common", ":", " ", "{", "}", ",">> }

DomListener ==
    <<"document.addEventListener", "(", "\"", "DOMContentLoaded", "\"", ",", " ",
      "(", "event", ")", " ", "=>", " ", "{", "\n", "q", "(", "'", ".udl-character",
      "'", ")", ";", "\n", "}", ")", ";">>

DomListenerNested ==
    <<"document.addEventListener", "(", "'", "DOMContentLoaded", "'", ",",
      "(", "event", ")", "=>", "{", "\n", "q", "(", "'", ".udl-character",
      "'", ")", ".forEach", "(", "function", "(", "imx", ")", "{", "}", ")", ";",
      "\n", "}", ")", ";">>

ExeDevice ==
    <<"if", " ", "(", "typeof", " ", "$exeDevice", " ", "!==", " ", "\"", "undefined",
      "\"", ")", " ", "{", "\n", "$exeDevice.characters", "=", "[", "]", ";", "\n", "}">>

CharacterPieces ==
    { <<>>,
      DomListener,
      DomListenerNested,
      ExeDevice,
      DomListener \o <<"\n", "\n">> \o ExeDevice,
      \* only the class name, in other code
      <<"q", "(", "'", ".udl-character", "'", ")", ";">> }

H5PPieces ==
    { <<>>,
      <<"// H5P iframe Resizer", "\n", "(", "function", " ", "(", ")", " ", "{", "\n",
        "h5pResizerInitialized", "=", "true", ";", "\n", "}", ")", "(", ")", ";">>,
      \* only the flag
      <<"h5pResizerInitialized", "=", "true", ";">> }

PhasePieces ==
    { <<>>,
      <<"//Phase management", "\n", "$", "(", "\"", "#nodeDecoration", "\"", ")",
        ".addClass", "(", "\"", "nodeSubSection", "\"", ")", ";", "\n", "}">> }

\* layouts of the five pieces in the file
Orders == { <<1, 2, 3, 4, 5>>, <<5, 4, 3, 2, 1>>, <<4, 1, 5, 3, 2>> }

RECURSIVE Layout(_, _, _)
Layout(pieces, order, n) ==
    IF n > Len(order) THEN <<>>
    ELSE (IF pieces[order[n]] = <<>> THEN <<>> ELSE pieces[order[n]] \o <<"\n">>)
         \o Layout(pieces, order, n + 1)

RECURSIVE Declarations(_)
Declarations(n) ==
    IF n = 0 THEN <<>>
    ELSE Declarations(n - 1)
         \o <<"function", " ", FnNameOf(n), "(", ")", "{", "}", "\n">>

RECURSIVE Fill(_)
Fill(n) == IF n = 0 THEN <<>> ELSE <<Hundred>> \o Fill(n - 1)

\* every combination of pieces in every layout
FeatureSources ==
    { Layout(<<p, c, k, h, f>>, o, 1) :
        p \in PrintPieces, c \in CommonPieces, k \in CharacterPieces,
        h \in H5PPieces, f \in PhasePieces, o \in Orders }

\* one short piece per feature
ShortPieces ==
    << <<"printContent", " ", "=", " ", "function", "(", ")", " ", "{", "}", ";">>,
       <<"common", ":", " ", "{", "init", ":", " ", "function", "(", "c", ")", " ",
         "{", "}", "}", ",">>,
       <<"q", "(", "'", ".udl-character", "'", ")", ";">>,
       <<"h5pResizerInitialized", "=", "true", ";">>,
       <<"q", "(", "'", "nodeSection", "'", ")", ";">> >>

\* every combination of features with declarations and blocks of lines
SizedSources ==
    { Layout([i \in 1..5 |-> IF i \in on THEN ShortPieces[i] ELSE <<>>],
             <<1, 2, 3, 4, 5>>, 1)
      \o Declarations(n) \o Fill(b) :
        on \in SUBSET (1..5), n \in 0..MaxFns, b \in 0..MaxFill }

Sources == FeatureSources \cup SizedSources

-----------------------------------------------------------------------------
(* The conversion run: StyleConverter.convert up to the script             *)

Init ==
    /\ \/ jsFile = TRUE /\ jsContent \in Sources
       \/ jsFile = FALSE /\ jsContent = <<>>
    /\ pc = "new"
    /\ analysis = NewAnalysis
    /\ runs = 0
    /\ sections = <<>>
    /\ customCodeSections = <<>>
    /\ content = <<>>
    /\ stylesNew = Documented
    /\ conv = ConvIdle
    /\ batch = BatchIdle
    /\ scan = ScanIdle
    /\ app = AppIdle
    /\ assets = AssetsIdle

\* const analysis = await analyzer.analyze()
Analyze ==
    /\ pc = "new"
    /\ analysis' = AnalyzeAll(analysis, jsFile, jsContent)
    /\ runs' = runs + 1
    /\ pc' = "analysed"
    /\ UNCHANGED <<jsFile, jsContent, sections, customCodeSections, content, stylesNew, scan,
                   driverVars>>

\* analyze() called once more on the same analyzer instance
Reanalyze ==
    /\ pc = "analysed"
    /\ runs < MaxRuns
    /\ analysis' = AnalyzeAll(analysis, jsFile, jsContent)
    /\ runs' = runs + 1
    /\ pc' = "analysed"
    /\ UNCHANGED <<jsFile, jsContent, sections, customCodeSections, content, stylesNew, scan,
                   driverVars>>

RECURSIVE Field(_, _)
Field(steps, f) ==
    IF steps = <<>> THEN <<>> ELSE <<steps[1][f]>> \o Field(Tail(steps), f)

\* new JavaScriptTransformer(analysis).transform()
Transform ==
    /\ pc = "analysed"
    /\ LET loaded == stylesNew[analysis.template]
           taken == IF analysis.complexity # "simple"
                    THEN ExtractCustomCode(analysis)
                    ELSE <<>>
       IN /\ sections' = Field(taken, "sec")
          /\ customCodeSections' = Field(taken, "pushed")
          \* if (customCode): '' without an old script, else an array
          /\ content' = IF analysis.complexity # "simple" /\ analysis.jsContent # <<>>
                        THEN IntegrateCustomCode(loaded, Field(taken, "sec"))
                        ELSE loaded
    /\ pc' = "transformed"
    /\ UNCHANGED <<jsFile, jsContent, analysis, runs, stylesNew, scan, driverVars>>

Next == Analyze \/ Transform

Spec == Init /\ [][Next]_vars

\* the scripts converted against every set of template files
TemplateSources ==
    { Layout(<<p, c, k, h, f>>, <<1, 2, 3, 4, 5>>, 1) :
        p \in PrintPieces, c \in CommonPieces, k \in CharacterPieces,
        h \in H5PPieces, f \in PhasePieces }

InitTemplates ==
    /\ jsFile = TRUE
    /\ jsContent \in TemplateSources
    /\ stylesNew \in TemplateStores
    /\ pc = "new"
    /\ analysis = NewAnalysis
    /\ runs = 0
    /\ sections = <<>>
    /\ customCodeSections = <<>>
    /\ content = <<>>
    /\ scan = ScanIdle
    /\ app = AppIdle
    /\ assets = AssetsIdle
    /\ conv = ConvIdle
    /\ batch = BatchIdle

\* the conversion run with template files of either shape
SpecTemplates == InitTemplates /\ [][Next]_vars

-----------------------------------------------------------------------------
(* StyleConverter.convert, step by step: what it writes                    *)

\* the steps of convert() that read the input or the templates and may throw
FailPoints == {"none", "pathExists", "analyze", "transform", "merge", "update", "readdir"}

\* new StyleConverter(options); convert(inputPath) entered
InitConvert ==
    /\ \E d \in BOOLEAN, z \in BOOLEAN, f \in FailPoints :
          conv = [dryRun |-> d, createZip |-> z, fails |-> f, step |-> "pathExists",
                  written |-> {}, results |-> <<>>]
    /\ batch = BatchIdle
    /\ jsFile = FALSE
    /\ jsContent = <<>>
    /\ pc = "convert"
    /\ analysis = NewAnalysis
    /\ runs = 0
    /\ sections = <<>>
    /\ customCodeSections = <<>>
    /\ content = <<>>
    /\ stylesNew = Documented
    /\ scan = ScanIdle
    /\ app = AppIdle
    /\ assets = AssetsIdle

ConvFrame == UNCHANGED <<jsFile, jsContent, pc, scan, pipeVars, batch, assets, app>>

\* one step of convert(): it throws when this is the step that fails, else
\* it writes the files given unless this is a dry run, and moves on
ConvStep(from, to, files) ==
    /\ conv.step = from
    /\ conv' = IF conv.fails = from
               THEN [conv EXCEPT !.step = "thrown"]
               ELSE [conv EXCEPT !.step = to,
                                 !.written = IF conv.dryRun THEN @ ELSE @ \cup files]
    /\ ConvFrame

\* if (!await fs.pathExists(inputPath)) throw
ConvPathExists == ConvStep("pathExists", "analyze", {})

\* analyzer.analyze()
ConvAnalyze == ConvStep("analyze", "ensureDir", {})

\* the output directory and its sub-directories
ConvEnsureDir ==
    ConvStep("ensureDir", "transform", {"outputPath", "icons", "img", "fonts"})

\* jsTransformer.transform() and style.js
ConvTransform == ConvStep("transform", "merge", {"style.js"})

\* cssMerger.merge() and style.css
ConvMerge == ConvStep("merge", "update", {"style.css"})

\* configUpdater.update() and config.xml
ConvUpdate == ConvStep("update", "readdir", {"config.xml"})

\* the assets: migrate() copies them; a dry run lists the input directory
\* and computes the destinations only
ConvAssets == ConvStep("readdir", "validate", {"assets"})

\* validator.validate(), skipped in a dry run; it writes nothing
ConvValidate == ConvStep("validate", "report", {})

\* the reports with the ZIP written whenever it was asked for
ConvReport_ZipOutside ==
    /\ conv.step = "report"
    /\ conv' = [conv EXCEPT
                  !.step = "returned",
                  !.written = (IF conv.dryRun THEN @ ELSE @ \cup {"conversion-report.md"})
                              \cup (IF conv.createZip THEN {"zip"} ELSE {}),
                  !.results = <<[dryRun |-> conv.dryRun, zipFile |-> conv.createZip]>>]
    /\ ConvFrame

\* the results object, the console report, and outside a dry run the
\* markdown report and, if asked for, the ZIP
ConvReport ==
    /\ conv.step = "report"
    /\ conv' = [conv EXCEPT
                  !.step = "returned",
                  !.written = IF conv.dryRun THEN @
                              ELSE @ \cup {"conversion-report.md"}
                                     \cup (IF conv.createZip THEN {"zip"} ELSE {}),
                  !.results = <<[dryRun |-> conv.dryRun,
                                 zipFile |-> ~conv.dryRun /\ conv.createZip]>>]
    /\ ConvFrame

NextConvert ==
    \/ ConvPathExists \/ ConvAnalyze \/ ConvEnsureDir \/ ConvTransform \/ ConvMerge
    \/ ConvUpdate \/ ConvAssets \/ ConvValidate \/ ConvReport

SpecConvert == InitConvert /\ [][NextConvert]_vars

-----------------------------------------------------------------------------
(* StyleConverter.convertBatch                                             *)

\* what fs.readdir(inputDir) lists: a style directory that converts, a
\* directory on which convert() throws, a plain file, an entry on which
\* fs.stat throws (a dangling link)
EntryKinds == {"style", "broken", "file", "dangling"}

RECURSIVE Listings(_)
Listings(n) ==
    IF n = 0 THEN {<<>>}
    ELSE Listings(n - 1)
         \cup {Append(l, k) : l \in {x \in Listings(n - 1) : Len(x) = n - 1},
                              k \in EntryKinds}

\* after const styles = await fs.readdir(inputDir); const results = []
InitBatch ==
    /\ \E l \in Listings(MaxStyles) :
          batch = [styles |-> l, i |-> 1, results |-> <<>>, step |-> "loop"]
    /\ conv = ConvIdle
    /\ jsFile = FALSE
    /\ jsContent = <<>>
    /\ pc = "batch"
    /\ analysis = NewAnalysis
    /\ runs = 0
    /\ sections = <<>>
    /\ customCodeSections = <<>>
    /\ content = <<>>
    /\ stylesNew = Documented
    /\ scan = ScanIdle
    /\ app = AppIdle
    /\ assets = AssetsIdle

BatchFrame == UNCHANGED <<jsFile, jsContent, pc, scan, pipeVars, conv, assets, app>>

\* fs.stat throws: nothing catches it, convertBatch rejects
BatchStatThrows ==
    /\ batch.step = "loop"
    /\ batch.i <= Len(batch.styles)
    /\ batch.styles[batch.i] = "dangling"
    /\ batch' = [batch EXCEPT !.step = "thrown"]
    /\ BatchFrame

\* not a directory: the entry is passed over
BatchSkip ==
    /\ batch.step = "loop"
    /\ batch.i <= Len(batch.styles)
    /\ batch.styles[batch.i] = "file"
    /\ batch' = [batch EXCEPT !.i = @ + 1]
    /\ BatchFrame

\* a directory with convert() rethrowing to the caller of convertBatch
BatchConvert_Rethrows ==
    /\ batch.step = "loop"
    /\ batch.i <= Len(batch.styles)
    /\ batch.styles[batch.i] \in {"style", "broken"}
    /\ batch' = IF batch.styles[batch.i] = "style"
                THEN [batch EXCEPT !.i = @ + 1,
                                   !.results = Append(@, [style |-> batch.i, success |-> TRUE])]
                ELSE [batch EXCEPT !.step = "thrown"]
    /\ BatchFrame

\* a directory: convert() inside try / catch, one entry pushed either way
BatchConvert ==
    /\ batch.step = "loop"
    /\ batch.i <= Len(batch.styles)
    /\ batch.styles[batch.i] \in {"style", "broken"}
    /\ batch' = [batch EXCEPT
                   !.i = @ + 1,
                   !.results = Append(@, [style |-> batch.i,
                                          success |-> batch.styles[batch.i] = "style"])]
    /\ BatchFrame

\* the loop is over: return results
BatchReturn ==
    /\ batch.step = "loop"
    /\ batch.i > Len(batch.styles)
    /\ batch' = [batch EXCEPT !.step = "returned"]
    /\ BatchFrame

NextBatch == BatchStatThrows \/ BatchSkip \/ BatchConvert \/ BatchReturn

SpecBatch == InitBatch /\ [][NextBatch]_vars

-----------------------------------------------------------------------------
(* Assets: StyleAnalyzer.findFiles, CSSMerger.updateAssetPaths and         *)
(* AssetMigrator.  A file name is "stem.ext"; a reference of the CSS is    *)
(* url(<quote>dir/stem.ext<quote>), with dir "" for a bare name.           *)

\* String.prototype.toLowerCase on the lexemes of names
Lower(t) == CASE t = "Icon" -> "icon" [] t = "PNG" -> "png" [] OTHER -> t

\* t.includes('icon')
HasIcon(t) == t \in {"icon", "icons", "icon-home"}

Stems == {"logo", "icon-home", "Icon", "screenshot"}
Exts == {"png", "PNG", "gif", "svg", "jpg", "woff", "webp"}

\* Files smaller than 50KB are considered small
SmallLimit == 51200

\* the entries an input directory may hold: regular files, the .svg ones of
\* either size, and a sub-directory
Entries ==
    { [stem |-> s, ext |-> e, size |-> 1024, isFile |-> TRUE] : s \in Stems, e \in Exts }
    \cup { [stem |-> s, ext |-> "svg", size |-> SmallLimit, isFile |-> TRUE] : s \in Stems }
    \cup { [stem |-> "old", ext |-> "png", size |-> 0, isFile |-> FALSE] }

SameName(a, b) == a.stem = b.stem /\ a.ext = b.ext

\* fs.readdir: the entries of a directory, no name twice
RootListings ==
    UNION { { l \in [1..n -> Entries] :
                \A i, j \in 1..n : i # j => ~SameName(l[i], l[j]) } : n \in 1..MaxFiles }

\* StyleAnalyzer.isAssetFile
IsAssetFile(f) ==
    Lower(f.ext) \in {"png", "jpg", "jpeg", "gif", "svg", "woff", "woff2", "ttf", "eot", "otf"}

RECURSIVE FindAssets(_, _)
\* StyleAnalyzer.findFiles: analysis.assets (no name of the universe ends in
\* .js or .css or is config.xml)
FindAssets(files, i) ==
    IF i > Len(files) THEN <<>>
    ELSE (IF files[i].isFile /\ IsAssetFile(files[i]) THEN <<files[i]>> ELSE <<>>)
         \o FindAssets(files, i + 1)

\* AssetMigrator.isSmallFile
IsSmallFile(f) == f.size < SmallLimit

RootFiles == { <<"config", "xml">>, <<"style", "css">>, <<"style", "js">>,
               <<"screenshot", "png">>, <<"readme", "md">> }

\* no destination: null, and no prefix in a reference
NoDir == ""

\* AssetMigrator.getDestination
GetDestination(f) ==
    LET ext == Lower(f.ext)
    IN IF <<Lower(f.stem), Lower(f.ext)>> \in RootFiles THEN NoDir
       ELSE IF \/ HasIcon(Lower(f.stem))
               \/ ext = "gif"
               \/ (ext = "svg" /\ IsSmallFile(f))
       THEN "icons"
       ELSE IF ext \in {"woff", "woff2", "ttf", "eot", "otf"} THEN "fonts"
       ELSE IF ext \in {"png", "jpg", "jpeg", "svg", "webp"} THEN "img"
       ELSE NoDir

\* the callback's return `url('${prefix}${filename}')`
Prefixed(r, prefix) == [r EXCEPT !.quote = "'", !.dir = prefix]

\* filename.includes('/'); no name here starts with http, // or data:
HasSlash(r) == r.dir # NoDir

\* /url\s*\(\s*['"]?([^'")\s]*icon[^'")\s]*\.(gif|svg|png))['"]?\s*\)/gi
IconPattern(r) ==
    /\ HasIcon(Lower(r.dir)) \/ HasIcon(Lower(r.stem))
    /\ Lower(r.ext) \in {"gif", "svg", "png"}

\* /url\s*\(\s*['"]?([^'")\s\/]*\.(gif))['"]?\s*\)/gi
GifPattern(r) == r.dir = NoDir /\ Lower(r.ext) = "gif"

\* /url\s*\(\s*['"]?([^'")\s]*\.(png|jpg|jpeg))['"]?\s*\)/gi
ImagePattern(r) == Lower(r.ext) \in {"png", "jpg", "jpeg"}

\* /url\s*\(\s*['"]?([^'")\s]*\.(woff|woff2|ttf|eot|otf))['"]?\s*\)/gi
FontPattern(r) == Lower(r.ext) \in {"woff", "woff2", "ttf", "eot", "otf"}

\* the four replacements of updateAssetPaths on one reference, in order
UpdateReference(r) ==
    LET r1 == IF IconPattern(r) /\ ~HasSlash(r) THEN Prefixed(r, "icons") ELSE r
        r2 == IF GifPattern(r1) /\ ~HasSlash(r1) THEN Prefixed(r1, "icons") ELSE r1
        r3 == IF ImagePattern(r2) /\ ~HasSlash(r2) /\ ~HasIcon(r2.stem)
              THEN Prefixed(r2, "img") ELSE r2
        r4 == IF FontPattern(r3) /\ ~HasSlash(r3) THEN Prefixed(r3, "fonts") ELSE r3
    IN r4

\* CSSMerger.updateAssetPaths
UpdateAssetPaths(css) == [i \in DOMAIN css |-> UpdateReference(css[i])]

\* the style sheet that names every entry of the directory as url(<name>)
BareReferences(files, q) ==
    [i \in DOMAIN files |->
        [quote |-> q, dir |-> NoDir, stem |-> files[i].stem, ext |-> files[i].ext]]

InitAssets ==
    /\ \E l \in RootListings, q \in {"", "\"", "'"} :
          assets = [files |-> l, css |-> BareReferences(l, q), found |-> <<>>, i |-> 0,
                    output |-> {}, migrations |-> <<>>, step |-> "findFiles"]
    /\ conv = ConvIdle
    /\ batch = BatchIdle
    /\ jsFile = FALSE
    /\ jsContent = <<>>
    /\ pc = "convert"
    /\ analysis = NewAnalysis
    /\ runs = 0
    /\ sections = <<>>
    /\ customCodeSections = <<>>
    /\ content = <<>>
    /\ stylesNew = Documented
    /\ scan = ScanIdle
    /\ app = AppIdle

AssetsFrame == UNCHANGED <<jsFile, jsContent, pc, scan, pipeVars, conv, batch, app>>

\* analyzer.analyze(): findFiles
AssetsFindFiles ==
    /\ assets.step = "findFiles"
    /\ assets' = [assets EXCEPT !.found = FindAssets(assets.files, 1), !.step = "merge"]
    /\ AssetsFrame

\* cssMerger.merge(): the references rewritten; style.css
AssetsMerge ==
    /\ assets.step = "merge"
    /\ assets' = [assets EXCEPT !.css = UpdateAssetPaths(assets.css),
                               !.output = @ \cup {<<NoDir, "style", "css">>},
                               !.i = 1,
                               !.step = "migrate"]
    /\ AssetsFrame

\* migrate(): an entry with a destination is copied there (migrateFile)
AssetsMigrateFile ==
    /\ assets.step = "migrate"
    /\ assets.i <= Len(assets.files)
    /\ LET f == assets.files[assets.i]
           destination == GetDestination(f)
       IN /\ f.isFile
          /\ destination # NoDir
          /\ assets' = [assets EXCEPT
                          !.output = @ \cup {<<destination, f.stem, f.ext>>},
                          !.migrations = Append(@, [filename |-> <<f.stem, f.ext>>,
                                                    type |-> destination]),
                          !.i = @ + 1]
    /\ AssetsFrame

\* migrate(): a directory, or a file without destination, is passed over
AssetsMigrateSkip ==
    /\ assets.step = "migrate"
    /\ assets.i <= Len(assets.files)
    /\ LET f == assets.files[assets.i]
       IN ~f.isFile \/ GetDestination(f) = NoDir
    /\ assets' = [assets EXCEPT !.i = @ + 1]
    /\ AssetsFrame

\* migrate() returns; convert() goes on to validation and the reports
AssetsMigrated ==
    /\ assets.step = "migrate"
    /\ assets.i > Len(assets.files)
    /\ assets' = [assets EXCEPT !.step = "migrated"]
    /\ AssetsFrame

NextAssets ==
    \/ AssetsFindFiles \/ AssetsMerge \/ AssetsMigrateFile \/ AssetsMigrateSkip
    \/ AssetsMigrated

SpecAssets == InitAssets /\ [][NextAssets]_vars

-----------------------------------------------------------------------------
(* The browser App: uploads, reads and conversions as tasks of the event   *)
(* loop.  A handler runs from an event to its next await on a read or on   *)
(* the ZIP generation; an await on a settled promise does not let another  *)
(* event in.  BrowserFileHandler owns one Map, which readDirectory and     *)
(* readZipFile clear and fill and return: App.filesMap is null or that Map. *)
(* A file is <<u, k>>: the k-th file of the u-th upload.                   *)

\* uploads, files of an upload, and clicks on Convert in a run
MaxUploads == 2
MaxFilesOfUpload == 2
MaxClicks == 2

\* new App(): no Map held; the button as the page declares it
InitApp ==
    /\ \E d \in BOOLEAN :
          app = [filesMap |-> {}, held |-> FALSE, uploads |-> <<>>, disabled |-> d,
                 spinner |-> FALSE, inFlight |-> 0, clicks |-> 0, handed |-> <<>>,
                 lastLoaded |-> {}]
    /\ assets = AssetsIdle
    /\ conv = ConvIdle
    /\ batch = BatchIdle
    /\ jsFile = FALSE
    /\ jsContent = <<>>
    /\ pc = "app"
    /\ analysis = NewAnalysis
    /\ runs = 0
    /\ sections = <<>>
    /\ customCodeSections = <<>>
    /\ content = <<>>
    /\ stylesNew = Documented
    /\ scan = ScanIdle

AppFrame == UNCHANGED <<jsFile, jsContent, pc, scan, pipeVars, conv, batch, assets>>

\* a change event with files: handleFileUpload up to the first await inside
\* readDirectory (the first file) or readZipFile (JSZip.loadAsync, k = 0);
\* the Map is cleared on the way
AppUpload(type, n) ==
    /\ Len(app.uploads) < MaxUploads
    /\ app' = [app EXCEPT
                 !.filesMap = {},
                 !.uploads = Append(@, [type |-> type, n |-> n, state |-> "reading",
                                        k |-> IF type = "zip" THEN 0 ELSE 1])]
    /\ AppFrame

\* a read of upload u completes: the file goes into the Map and the next
\* read starts; after the last one the Map is returned, handleFileUpload
\* stores it in App.filesMap and enables the button
AppReadDone(u) ==
    /\ u \in DOMAIN app.uploads
    /\ app.uploads[u].state = "reading"
    /\ LET up == app.uploads[u]
           stored == IF up.k = 0 THEN app.filesMap ELSE app.filesMap \cup {<<u, up.k>>}
       IN IF up.k < up.n
          THEN app' = [app EXCEPT !.filesMap = stored, !.uploads[u].k = @ + 1]
          ELSE app' = [app EXCEPT !.filesMap = stored,
                                  !.uploads[u].state = "loaded",
                                  !.held = TRUE,
                                  !.disabled = FALSE,
                                  !.lastLoaded = {<<u, j>> : j \in 1..up.n}]
    /\ AppFrame

\* a read of upload u fails: the handler's catch reports it
AppReadFails(u) ==
    /\ u \in DOMAIN app.uploads
    /\ app.uploads[u].state = "reading"
    /\ app' = [app EXCEPT !.uploads[u].state = "failed"]
    /\ AppFrame

\* a click on the enabled button with no Map or an empty one: 'No files
\* uploaded!'
AppConvertNoFiles ==
    /\ ~app.disabled
    /\ app.clicks < MaxClicks
    /\ ~app.held \/ app.filesMap = {}
    /\ app' = [app EXCEPT !.clicks = @ + 1]
    /\ AppFrame

\* a click on the enabled button: convert() hands the Map to the converter,
\* which reads it at once; with the ZIP asked for the conversion then waits
\* for its generation, else it settles in the same task
AppConvert(createZip) ==
    /\ ~app.disabled
    /\ app.clicks < MaxClicks
    /\ app.held /\ app.filesMap # {}
    /\ app' = [app EXCEPT
                 !.clicks = @ + 1,
                 !.handed = Append(@, [filesMap |-> app.filesMap,
                                       loaded |-> app.lastLoaded]),
                 !.disabled = createZip,
                 !.spinner = createZip,
                 !.inFlight = IF createZip THEN @ + 1 ELSE @]
    /\ AppFrame

\* the conversion settles, with a result or an error: finally
AppConvertSettles ==
    /\ app.inFlight > 0
    /\ app' = [app EXCEPT !.inFlight = @ - 1, !.disabled = FALSE, !.spinner = FALSE]
    /\ AppFrame

NextApp ==
    \/ \E type \in {"folder", "zip"}, n \in 1..MaxFilesOfUpload : AppUpload(type, n)
    \/ \E u \in 1..MaxUploads : AppReadDone(u)
    \/ \E u \in 1..MaxUploads : AppReadFails(u)
    \/ AppConvertNoFiles
    \/ \E createZip \in BOOLEAN : AppConvert(createZip)
    \/ AppConvertSettles

SpecApp == InitApp /\ [][NextApp]_vars

\* the analyzer instance used more than once
NextReuse == Analyze \/ Reanalyze \/ Transform

SpecReuse == Init /\ [][NextReuse]_vars

-----------------------------------------------------------------------------
(* Reference reading of a block, after the design's description of the     *)
(* scan: a character is escaped when an odd number of consecutive          *)
(* backslashes precedes it; a string runs from an unescaped quote to the   *)
(* next unescaped occurrence of the same quote; depth counts the unescaped *)
(* braces outside strings.  start is the position of the opening brace.    *)

RECURSIVE BackslashesBefore(_, _, _)
BackslashesBefore(code, start, p) ==
    IF p > start /\ code[p - 1] = "\\"
    THEN 1 + BackslashesBefore(code, start, p - 1)
    ELSE 0

RefEscaped(code, start, p) == BackslashesBefore(code, start, p) % 2 = 1

\* the quote of the string that position p lies in ("null": outside strings),
\* before the character at p is read
RECURSIVE RefString(_, _, _)
RefString(code, start, p) ==
    IF p <= start THEN "null"
    ELSE LET q == RefString(code, start, p - 1)
             c == code[p - 1]
         IN IF RefEscaped(code, start, p - 1) \/ c = "\\" THEN q
            ELSE IF q = "null" THEN (IF c \in Quotes THEN c ELSE "null")
            ELSE IF c = q THEN "null" ELSE q

\* the character at p is a brace that counts
RefCounts(code, start, p) ==
    /\ code[p] \in {"{", "}"}
    /\ ~RefEscaped(code, start, p)
    /\ RefString(code, start, p) = "null"

\* depth after the character at p
RECURSIVE RefDepth(_, _, _)
RefDepth(code, start, p) ==
    IF p < start THEN 0
    ELSE RefDepth(code, start, p - 1)
         + (IF ~RefCounts(code, start, p) THEN 0
            ELSE IF code[p] = "{" THEN 1 ELSE -1)

\* the first position where the depth is back to zero; 0 when there is none
RefEnd(code, start) ==
    LET ends == {p \in start..Len(code) :
                    RefCounts(code, start, p) /\ code[p] = "}"
                    /\ RefDepth(code, start, p) = 0}
    IN IF ends = {} THEN 0 ELSE CHOOSE p \in ends : \A r \in ends : p <= r

Ins(code, p, b) == SubSeq(code, 1, p - 1) \o <<b>> \o SubSeq(code, p, Len(code))

Extract(fn, code) ==
    IF fn = "extractFunction" THEN ExtractFunction(code, "printContent")
    ELSE ExtractCommonInit(code)

Returned == pc = "returned" /\ scan.result # NoSpan

\* the returned span with one more character inside it
SpanPlusOne(code2) ==
    IF scan.fn = "extractFunction"
    THEN SubSeq(code2, scan.m.index, scan.i + 1)
    ELSE <<"common", ":", " ">> \o SubSeq(code2, scan.m.end, scan.i + 1)

\* positions of the returned block at which a character can be inserted
\* inside a string literal
InStringPositions ==
    {p \in (scan.m.end + 1)..scan.i : RefString(jsContent, scan.m.end, p) # "null"}

-----------------------------------------------------------------------------
(* Claims on the brace scanner, checked under SpecScan                     *)

\* C1 (as stated): whenever extractFunction / extractCommonInit returned a
\* span, inserting a brace at any position inside any string literal of the
\* block leaves the span ending at the same closing brace: the new span is
\* the old one with the inserted brace in it.  (Texts with several inserted
\* braces are reached by inserting one brace into a text with one fewer.)
C1_AnyInsertion ==
    Returned =>
        \A p \in InStringPositions : \A b \in {"{", "}"} :
            Extract(scan.fn, Ins(jsContent, p, b)) = SpanPlusOne(Ins(jsContent, p, b))

\* C1 (amended): the same, for insertions that do not split an escape
\* sequence, i.e. not placed between an unescaped backslash and the
\* character it escapes.
C1_InsertionOutsideEscape ==
    Returned =>
        \A p \in InStringPositions : \A b \in {"{", "}"} :
            ~RefEscaped(jsContent, scan.m.end, p) =>
                Extract(scan.fn, Ins(jsContent, p, b)) = SpanPlusOne(Ins(jsContent, p, b))

\* a span was returned from a block with a string literal that holds a
\* closing brace and has a nested block after it
C1_Witness ==
    /\ Returned
    /\ \E p \in InStringPositions :
          /\ ~RefEscaped(jsContent, scan.m.end, p)
          /\ jsContent[p] = "}"
    /\ scan.i = Len(jsContent)

\* C2: a returned span ends exactly at the closing brace of the opening brace
\* of the matched declaration, the first position where the depth counted
\* outside strings is back to zero, and holds nothing after it.
C2_EndsAtMatchingBrace ==
    Returned =>
        /\ jsContent[scan.m.end] = "{"
        /\ scan.i = RefEnd(jsContent, scan.m.end)
        /\ scan.result = IF scan.fn = "extractFunction"
                         THEN SubSeq(jsContent, scan.m.index, RefEnd(jsContent, scan.m.end))
                         ELSE <<"common", ":", " ">>
                              \o SubSeq(jsContent, scan.m.end, RefEnd(jsContent, scan.m.end))
        /\ scan.result[Len(scan.result)] = "}"

\* a span was returned past a closing brace inside a string and past a
\* nested closing brace, and text follows the span
C2_Witness ==
    /\ Returned
    /\ scan.i < Len(jsContent)
    /\ \E p \in (scan.m.end + 1)..(scan.i - 1) :
          jsContent[p] = "}" /\ RefString(jsContent, scan.m.end, p) # "null"

\* C3: in one iteration of the scan, a character preceded by an odd number of
\* consecutive backslashes changes neither string mode nor depth; a quote
\* preceded by an even number opens a string outside strings, closes the
\* string when it is the quote that opened it, and changes nothing inside a
\* string opened by another quote.
C3_Step ==
    (pc = "loop" /\ scan'.steps = scan.steps + 1) =>
        LET c == jsContent[scan.i]
            odd == RefEscaped(jsContent, scan.m.end, scan.i)
            st == scan.st
            nx == scan'.st
        IN /\ odd => (/\ nx.inString = st.inString
                      /\ nx.stringChar = st.stringChar
                      /\ nx.braceCount = st.braceCount
                      /\ pc' = "loop")
           /\ (~odd /\ c \in Quotes /\ ~st.inString) =>
                  (nx.inString /\ nx.stringChar = c)
           /\ (~odd /\ c \in Quotes /\ st.inString /\ c = st.stringChar) =>
                  (~nx.inString)
           /\ (~odd /\ c \in Quotes /\ st.inString /\ c # st.stringChar) =>
                  (nx.inString /\ nx.stringChar = st.stringChar)
           /\ st.inString => nx.braceCount = st.braceCount

C3_EscapeAndQuotes == [][C3_Step]_vars

\* the scan is inside a string opened by one quote and reads an escaped
\* occurrence of that quote
C3_Witness ==
    /\ pc = "loop"
    /\ scan.i <= Len(jsContent)
    /\ scan.st.inString
    /\ scan.st.escaped
    /\ jsContent[scan.i] = scan.st.stringChar

\* C4: the scan is a single forward pass (the index grows by one in every
\* iteration and never passes the end of the text by more than one), it
\* always comes to a return, and it returns null exactly when the declaration
\* pattern does not match or the end of the text is reached before the depth
\* is back to zero.
C4_SinglePassAndNull ==
    /\ pc = "loop" =>
          /\ scan.i = scan.m.end + scan.steps
          /\ scan.i <= Len(jsContent) + 1
    /\ pc = "loop" => ENABLED (ScanIterate \/ ScanExhausted)
    /\ pc = "returned" =>
          /\ scan.steps <= Len(jsContent)
          /\ (scan.result = NoSpan) <=>
                (\/ scan.m.index = 0
                 \/ RefEnd(jsContent, scan.m.end) = 0)

\* null was returned at the end of a text whose string never closes
C4_Witness ==
    /\ pc = "returned"
    /\ scan.result = NoSpan
    /\ scan.m.index # 0
    /\ scan.st.inString
    /\ scan.steps = Len(jsContent) - scan.m.end + 1

-----------------------------------------------------------------------------
(* Claims on the analysis and on extractCustomCode                         *)

Analysed == pc \in {"analysed", "transformed"}

Flags == analysis.customCode

\* the top-level function declarations found in the script
FoundDeclarations == Len(TopLevelFunctions(jsContent, 1))

\* the decision table of the design: first match wins
TableTier(h5p, chr, pha, prt, com, lines, declarations) ==
    IF h5p \/ chr \/ pha \/ lines > 300 THEN "complex"
    ELSE IF prt \/ com \/ declarations > 2 THEN "moderate"
    ELSE "simple"

\* C5: after the analysis the complexity is the one the decision table gives
\* for the five flags, the line count and the number of top-level function
\* declarations found.
C5_DecisionTable ==
    Analysed =>
        analysis.complexity =
            TableTier(Flags.hasH5P, Flags.hasCharacters, Flags.hasPhaseManagement,
                      Flags.hasPrintContent, Flags.hasCommonInit, Flags.linesOfCode,
                      FoundDeclarations)

\* a script without any feature, of at most 300 lines, is moderate through
\* its three top-level function declarations
C5_Witness ==
    /\ Analysed
    /\ ~(Flags.hasH5P \/ Flags.hasCharacters \/ Flags.hasPhaseManagement)
    /\ ~(Flags.hasPrintContent \/ Flags.hasCommonInit)
    /\ Flags.linesOfCode <= 300
    /\ FoundDeclarations = 3
    /\ analysis.complexity = "moderate"

\* C6: after the analysis the template is neo exactly when the complexity is
\* complex, and base for simple and moderate; there is no other template.
\* The same holds of the analysis the browser converter computes.
C6_TemplateOfTier ==
    Analysed =>
        /\ analysis.template \in {"base", "neo"}
        /\ analysis.complexity \in {"simple", "moderate", "complex"}
        /\ analysis.template = "neo" <=> analysis.complexity = "complex"
        /\ analysis.complexity \in {"simple", "moderate"} => analysis.template = "base"
        /\ LET browser == BrowserAnalyze(jsContent)
           IN /\ browser.template \in {"base", "neo"}
              /\ browser.template = "neo" <=> browser.complexity = "complex"

\* a moderate style got the base template
C6_Witness ==
    /\ Analysed
    /\ analysis.complexity = "moderate"
    /\ analysis.template = "base"

TierRank(t) == CASE t = "simple" -> 1 [] t = "moderate" -> 2 [] t = "complex" -> 3

\* line counts past the threshold
LinesPast == 301..(300 + MaxFill)

\* C7: with the flags and the functions found kept, raising the line count
\* from a value of at most 300 past 300 never lowers the tier: the tier
\* becomes (or stays) complex.
C7_TierMonotone ==
    (Analysed /\ Flags.linesOfCode <= 300) =>
        \A n \in LinesPast :
            LET raised == DetermineComplexity(
                              [analysis EXCEPT !.customCode.linesOfCode = n])
            IN /\ TierRank(raised.complexity) >= TierRank(analysis.complexity)
               /\ raised.complexity = "complex"

\* a moderate style of fewer than 300 lines
C7_Witness ==
    /\ Analysed
    /\ Flags.linesOfCode < 300
    /\ Flags.hasPrintContent
    /\ analysis.complexity = "moderate"

\* C8 (as stated): a second analyze() of the same script on the same
\* analyzer instance yields the same flags, the same label list and the same
\* complexity as the first.
C8_SecondAnalysisSame ==
    [][(pc = "analysed" /\ runs' = runs + 1) =>
          /\ analysis'.customCode = analysis.customCode
          /\ analysis'.complexity = analysis.complexity]_vars

SectionRank(name) ==
    CASE name = "printContent function" -> 1
      [] name = "common.init function" -> 2
      [] name = "Character management" -> 3
      [] name = "H5P iframe resizer" -> 4
      [] name = "Phase management" -> 5

\* position of the first occurrence of a lexeme in the script; 0 when absent
FirstAt(t) ==
    IF \E i \in 1..Len(jsContent) : jsContent[i] = t
    THEN CHOOSE i \in 1..Len(jsContent) :
            jsContent[i] = t /\ \A j \in 1..(i - 1) : jsContent[j] # t
    ELSE 0

HasSection(name) == \E i \in 1..Len(sections) : sections[i].name = name

\* C9: the extracted sections come in the order printContent, common.init,
\* Character management, H5P iframe resizer, Phase management, each at most
\* once, whatever the order of their code in the script.
C9_FixedOrder ==
    pc = "transformed" =>
        \A i, j \in 1..Len(sections) :
            i < j => SectionRank(sections[i].name) < SectionRank(sections[j].name)

\* the script holds the H5P resizer before the character code, that before
\* the common object and that before printContent, and all four were
\* extracted
C9_Witness ==
    /\ pc = "transformed"
    /\ Len(sections) = 4
    /\ 0 < FirstAt("// H5P iframe Resizer")
    /\ FirstAt("// H5P iframe Resizer") < FirstAt("document.addEventListener")
    /\ FirstAt("document.addEventListener") < FirstAt("common")
    /\ FirstAt("common") < FirstAt("printContent")

\* the name pushed to customCodeSections with a section
PushedWith(name) ==
    CASE name = "printContent function" -> "printContent()"
      [] name = "common.init function" -> "common.init()"
      [] OTHER -> name

\* the extraction of feature k alone: null when the pattern does not match or
\* the block never closes
Alone(k) ==
    CASE k = 1 -> ExtractFunction(jsContent, "printContent")
      [] k = 2 -> ExtractCommonInit(jsContent)
      [] k = 3 -> ExtractCharacterManagement(jsContent)
      [] k = 4 -> ExtractH5PResizer(jsContent)
      [] k = 5 -> ExtractPhaseManagement(jsContent)

FeatureFlag(k) ==
    CASE k = 1 -> Flags.hasPrintContent
      [] k = 2 -> Flags.hasCommonInit
      [] k = 3 -> Flags.hasCharacters
      [] k = 4 -> Flags.hasH5P
      [] k = 5 -> Flags.hasPhaseManagement

FeatureName(k) ==
    <<"printContent function", "common.init function", "Character management",
      "H5P iframe resizer", "Phase management">>[k]

\* C10: a flagged feature whose extraction fails is left out of the sections
\* and of customCodeSections, every flagged feature whose extraction succeeds
\* is there with its code, and transform() completes with a script.
C10_SkipFailedOnly ==
    pc = "transformed" =>
        /\ \A k \in 1..5 :
              /\ (FeatureFlag(k) /\ Alone(k) # NoSpan) <=> HasSection(FeatureName(k))
              /\ \A i \in 1..Len(sections) :
                    sections[i].name = FeatureName(k) => sections[i].code = Alone(k)
        /\ Len(customCodeSections) = Len(sections)
        /\ \A i \in 1..Len(sections) :
              customCodeSections[i] = PushedWith(sections[i].name)
        /\ content # <<>>

\* printContent is flagged but cannot be extracted, and the sections that
\* follow it in the fixed order were extracted all the same
C10_Witness ==
    /\ pc = "transformed"
    /\ Flags.hasPrintContent
    /\ Alone(1) = NoSpan
    /\ ~HasSection("printContent function")
    /\ HasSection("common.init function")
    /\ HasSection("H5P iframe resizer")
    /\ Flags.hasPhaseManagement
    /\ ~HasSection("Phase management")

-----------------------------------------------------------------------------
(* Phase management                                                        *)

\* the statement $("#nodeDecoration").addClass, as lexemes
AddClassStatement == <<"$", "(", "\"", "#nodeDecoration", "\"", ")", ".addClass">>

\* the span the phase pattern is written for: from the first
\* '//Phase management' comment, through the first AddClassStatement after
\* it, to the first closing brace after that
PhaseSpan(code) ==
    LET cs == {c \in 1..Len(code) : code[c] = "//Phase management"}
        c == Least(cs)
        as == {a \in (c + 1)..(Len(code) - 6) : SubSeq(code, a, a + 6) = AddClassStatement}
        a == Least(as)
        bs == {b \in (a + 7)..Len(code) : code[b] = "}"}
    IN IF cs = {} THEN NoSpan
       ELSE IF as = {} THEN NoSpan
       ELSE IF bs = {} THEN NoSpan
       ELSE SubSeq(code, c, Least(bs))

\* sub occurs in text as one contiguous piece
Occurs(sub, text) ==
    \E i \in 0..(Len(text) - Len(sub)) : SubSeq(text, i + 1, i + Len(sub)) = sub

\* C11 (as stated): when hasPhaseManagement is set and the script holds the
\* '//Phase management' comment followed by $("#nodeDecoration").addClass and
\* a closing brace, extractPhaseManagement returns the span from the comment
\* through that brace, and the sections hold a 'Phase management' section
\* with that code, which is found in the script returned.
C11_PhaseExtracted ==
    (pc = "transformed" /\ Flags.hasPhaseManagement /\ PhaseSpan(jsContent) # NoSpan) =>
        /\ ExtractPhaseManagement(jsContent) = PhaseSpan(jsContent)
        /\ \E i \in 1..Len(sections) :
              /\ sections[i].name = "Phase management"
              /\ sections[i].code = PhaseSpan(jsContent)
        /\ Occurs(PhaseSpan(jsContent), content)

-----------------------------------------------------------------------------
(* The script returned                                                     *)

\* the template text transform() loaded
Loaded == stylesNew[analysis.template]

Has(text, t) == \E i \in 1..Len(text) : text[i] = t

NoFlags ==
    ~(\/ Flags.hasH5P \/ Flags.hasCharacters \/ Flags.hasPhaseManagement
      \/ Flags.hasPrintContent \/ Flags.hasCommonInit)

\* the sections bound for a placement target
Bound(location) == SelectSeq(sections, LAMBDA x : x.location = location)

\* text is the template with one insertion made inside it and nothing else
\* changed
OneInsertion(text, template) ==
    \E p \in 0..Len(template) :
        /\ Len(text) >= Len(template)
        /\ SubSeq(text, 1, p) = SubSeq(template, 1, p)
        /\ SubSeq(text, Len(text) - (Len(template) - p) + 1, Len(text))
              = SubSeq(template, p + 1, Len(template))

\* C13: with the five flags false the script returned is the template text,
\* without a marker, whatever the tier; without a section for the object the
\* template is kept whole in front of what is appended, and without a section
\* for the end of the file nothing is appended to the template.
C13_NoSectionNoInsertion ==
    pc = "transformed" =>
        /\ NoFlags => (content = Loaded /\ sections = <<>>)
        /\ (Bound("myTheme object") = <<>> /\ Bound("after main code") = <<>>) =>
              content = Loaded
        /\ Bound("myTheme object") = <<>> =>
              /\ ~Has(content, FunctionsMarker)
              /\ SubSeq(content, 1, Len(Loaded)) = Loaded
        /\ Bound("after main code") = <<>> =>
              /\ ~Has(content, CodeMarker)
              /\ OneInsertion(content, Loaded)

\* a style without any feature that is moderate through its three top-level
\* functions: extraction was attempted, and the template came back as it is
C13_Witness ==
    /\ pc = "transformed"
    /\ NoFlags
    /\ analysis.complexity = "moderate"
    /\ FoundDeclarations = 3
    /\ content = Loaded
    /\ ~Has(content, FunctionsMarker)
    /\ ~Has(content, CodeMarker)

\* the positions of a lexeme in a text
Positions(text, t) == {i \in 1..Len(text) : text[i] = t}

\* the codes of a group one after another start right after the marker line:
\* after the marker, the line break and the indentation given
FollowsMarker(text, marker, lead, codes) ==
    \E i \in Positions(text, marker) :
        /\ SubSeq(text, i + 1, i + Len(lead)) = lead
        /\ SubSeq(text, i + Len(lead) + 1, i + Len(lead) + Len(codes)) = codes

\* C14: the marker of the functions occurs once in the script returned when
\* a section is bound for the object and not at all otherwise; the marker of
\* the code occurs once when a section is bound for the end of the file and
\* not at all otherwise; each marker stands right in front of the sections
\* of its group, which follow in their order.
C14_OneMarkerPerGroup ==
    pc = "transformed" =>
        LET inside == Bound("myTheme object")
            after == Bound("after main code")
        IN /\ Cardinality(Positions(content, FunctionsMarker))
                 = (IF inside # <<>> THEN 1 ELSE 0)
           /\ Cardinality(Positions(content, CodeMarker))
                 = (IF after # <<>> THEN 1 ELSE 0)
           /\ inside # <<>> =>
                 FollowsMarker(content, FunctionsMarker, <<"\n", "    ">>,
                               Join(Codes(inside, TRUE), <<"\n", "\n", "    ">>))
           /\ after # <<>> =>
                 FollowsMarker(content, CodeMarker, <<"\n">>,
                               Join(Codes(after, FALSE), <<"\n", "\n">>))

\* two sections in each group, and one marker for each group
C14_Witness ==
    /\ pc = "transformed"
    /\ Len(Bound("myTheme object")) = 2
    /\ Len(Bound("after main code")) = 2
    /\ Cardinality(Positions(content, FunctionsMarker)) = 1
    /\ Cardinality(Positions(content, CodeMarker)) = 1
    /\ Loaded # Documented[analysis.template]

\* the opening brace of the body of params in a template, and the brace that
\* closes it by nesting
ParamsOpen(template) == Match(template, StartRegex("params")).end

ParamsClose(template) == RefEnd(template, ParamsOpen(template))

\* the position in the script returned up to which the template was copied
\* before the marker of the functions: the insertion point
InsertedAfter == Least(Positions(content, FunctionsMarker)) - 3

\* C15 (as stated): the sections bound for the object are inserted at the
\* end of the declaration of params: right after the brace that closes its
\* body by nesting, its optional comma and the line break, and never inside
\* the body, also when the body holds a block closed at the end of a line.
C15_AfterParamsDeclaration ==
    (pc = "transformed" /\ Bound("myTheme object") # <<>>) =>
        /\ Has(content, FunctionsMarker)
        /\ SubSeq(content, 1, InsertedAfter) = SubSeq(Loaded, 1, InsertedAfter)
        /\ InsertedAfter > ParamsClose(Loaded)
        /\ \A k \in (ParamsClose(Loaded) + 1)..InsertedAfter :
              IsWs(Loaded[k]) \/ Loaded[k] = ","

\* C16 (as stated): every section inserted into the object is followed by
\* one comma, not two, and a comma stands between the brace that closes
\* params and the first section inserted, whether params is followed by
\* another member in the template or is its last member.
C16_CommaSeparated ==
    (pc = "transformed" /\ Bound("myTheme object") # <<>>) =>
        /\ \A j \in 1..Len(sections) :
              sections[j].location = "myTheme object" =>
                  /\ Occurs(sections[j].code \o <<",">>, content)
                  /\ ~Occurs(sections[j].code \o <<",", ",">>, content)
        /\ Has(content, FunctionsMarker)
        /\ \E k \in (ParamsClose(Loaded) + 1)..InsertedAfter : content[k] = ","

\* the block appended for one or two sections: the codes with one blank
\* line between them and a line break at the end
AppendedBlock(after) ==
    IF Len(after) = 1 THEN after[1].code \o <<"\n">>
    ELSE after[1].code \o <<"\n", "\n">> \o after[2].code \o <<"\n">>

\* C17: the sections bound for the end of the file come after the last
\* character of the template text (with the insertion into the object
\* already made), under their marker, joined by one blank line, Character
\* management before H5P iframe resizer, and nothing else follows the marker.
C17_AppendedAtEnd ==
    (pc = "transformed" /\ Bound("after main code") # <<>>) =>
        LET after == Bound("after main code")
            inside == Bound("myTheme object")
            i == Least(Positions(content, CodeMarker))
            head == SubSeq(content, 1, i - 2)
        IN /\ Has(content, CodeMarker)
           /\ Len(after) <= 2
           /\ Len(after) = 2 =>
                 /\ after[1].name = "Character management"
                 /\ after[2].name = "H5P iframe resizer"
           /\ content = head \o <<"\n", CodeMarker, "\n">> \o AppendedBlock(after)
           /\ IF inside = <<>> THEN head = Loaded
              ELSE /\ OneInsertion(head, Loaded)
                   /\ Has(head, FunctionsMarker)
                   /\ head[Len(head)] = Loaded[Len(Loaded)]

\* both sections were appended, after a template that received an insertion
C17_Witness ==
    /\ pc = "transformed"
    /\ Len(Bound("after main code")) = 2
    /\ Bound("myTheme object") # <<>>
    /\ Has(content, CodeMarker)
    /\ content[Len(content)] = "\n"
    /\ Occurs(Bound("after main code")[1].code \o <<"\n", "\n">>
              \o Bound("after main code")[2].code, content)

-----------------------------------------------------------------------------
(* Styles without a script                                                 *)

NoScript == ~jsFile \/ jsContent = <<>>

\* the analysis and the script of the browser converter for the same input
BrowserAnalysis == BrowserAnalyze(jsContent)

BrowserScript ==
    BrowserTransformJavaScript(BrowserAnalysis, stylesNew[BrowserAnalysis.template])

\* C18: for a style without a script file, or with an empty one, the
\* analysis has the five flags false, 0 lines of code, complexity simple and
\* template base, nothing is extracted, and the script returned is the base
\* template; the browser converter gives the same.
C18_NoScriptIsSimple ==
    (pc = "transformed" /\ NoScript) =>
        /\ NoFlags
        /\ Flags.linesOfCode = 0
        /\ Flags.customFunctions = <<>>
        /\ analysis.complexity = "simple"
        /\ analysis.template = "base"
        /\ sections = <<>>
        /\ customCodeSections = <<>>
        /\ content = stylesNew["base"]
        /\ BrowserAnalysis.linesOfCode = 0
        /\ BrowserAnalysis.customCode.customFunctions = <<>>
        /\ BrowserAnalysis.complexity = "simple"
        /\ BrowserAnalysis.template = "base"
        /\ BrowserScript = stylesNew["base"]

\* a style with an empty script file was converted
C18_Witness ==
    /\ pc = "transformed"
    /\ jsFile
    /\ jsContent = <<>>
    /\ analysis.jsContent = <<>>
    /\ content = Documented["base"]

-----------------------------------------------------------------------------
(* Claims on the batch driver and on the dry run                           *)

\* the directories among the first n entries of the listing
Directories(n) == {k \in 1..n : k <= Len(batch.styles) /\ batch.styles[k] \in {"style", "broken"}}

Successes == Cardinality({k \in 1..Len(batch.results) : batch.results[k].success})

Failures == Cardinality({k \in 1..Len(batch.results) : ~batch.results[k].success})

\* C19: the directories are converted one after another; a directory on
\* which convert() fails gets an entry with success false and the loop goes
\* on (a failing convert() never ends the batch); when convertBatch returns,
\* the results hold one entry per directory of the listing, in the order of
\* the listing, and successes + failures is the number of directories.
C19_OneEntryPerDirectory ==
    /\ batch.step \in {"loop", "returned"} =>
          LET done == Directories(batch.i - 1)
          IN /\ Len(batch.results) = Cardinality(done)
             /\ {batch.results[k].style : k \in 1..Len(batch.results)} = done
             /\ \A k, l \in 1..Len(batch.results) :
                   k < l => batch.results[k].style < batch.results[l].style
             /\ \A k \in 1..Len(batch.results) :
                   batch.results[k].success <=>
                       batch.styles[batch.results[k].style] = "style"
    /\ batch.step = "returned" =>
          /\ batch.i = Len(batch.styles) + 1
          /\ Successes + Failures = Cardinality(Directories(Len(batch.styles)))
    /\ batch.step = "thrown" => batch.styles[batch.i] = "dangling"

\* the first directory failed, a file was passed over, and the directory
\* after them was converted all the same
C19_Witness ==
    /\ batch.step = "returned"
    /\ batch.styles = <<"broken", "file", "style">>
    /\ batch.results = <<[style |-> 1, success |-> FALSE], [style |-> 3, success |-> TRUE]>>

\* C20: in a dry run convert() writes nothing at any point of any path
\* through it, whether it returns or throws and whether or not a ZIP was
\* asked for: no directory, no style.js, style.css or config.xml, no asset,
\* no report, no ZIP; and the results returned have dryRun true.
C20_DryRunWritesNothing ==
    conv.dryRun =>
        /\ conv.written = {}
        /\ conv.step = "returned" =>
              /\ conv.results[1].dryRun = TRUE
              /\ ~conv.results[1].zipFile

\* a dry run with the zip option came back having written nothing
C20_Witness ==
    /\ conv.dryRun
    /\ conv.createZip
    /\ conv.step = "returned"
    /\ conv.written = {}
    /\ conv.results[1].dryRun

-----------------------------------------------------------------------------
(* The browser variant against the command-line one                        *)

\* the five feature flags of a customCode record
FiveFlags(c) ==
    <<c.hasH5P, c.hasCharacters, c.hasPhaseManagement, c.hasPrintContent, c.hasCommonInit>>

\* C21: for every script text the browser's analyze and the command-line
\* analyzer compute the same five feature flags, the same complexity tier
\* and the same template name.
C21_SameAnalysis ==
    Analysed =>
        LET browser == BrowserAnalyze(jsContent)
        IN /\ FiveFlags(browser.customCode) = FiveFlags(analysis.customCode)
           /\ browser.complexity = analysis.complexity
           /\ browser.template = analysis.template

-----------------------------------------------------------------------------
(* Claims on the assets                                                     *)

OutputDirs == {NoDir, "icons", "img", "fonts"}

\* C22: for every asset file of the input root that the CSS names as a bare
\* url(<name>), the prefix that updateAssetPaths writes into the reference
\* (icons/, img/, fonts/ or none) is the directory into which getDestination
\* places the file.
C22_PathsMatchReferences ==
    assets.step \in {"migrate", "migrated"} =>
        \A i \in DOMAIN assets.files :
            (assets.files[i].isFile /\ IsAssetFile(assets.files[i])) =>
                assets.css[i].dir = GetDestination(assets.files[i])

\* C23: after convert() without dryRun every regular file of the input root
\* that the analyzer lists as an asset is in the output, in exactly one of
\* the root, icons/, img/ and fonts/.
C23_AssetsAccountedFor ==
    assets.step = "migrated" =>
        \A k \in DOMAIN assets.found :
            LET f == assets.found[k]
            IN Cardinality({d \in OutputDirs : <<d, f.stem, f.ext>> \in assets.output}) = 1

-----------------------------------------------------------------------------
(* The text of the extracted sections                                       *)

\* the n lexemes of the text that start at position from
SourceAt(text, from, n) == SubSeq(text, from, from + n - 1)

\* where the declaration of a section is matched in the script
DeclarationOf(name) ==
    IF name = "printContent function"
    THEN Match(jsContent, StartRegex("printContent"))
    ELSE Match(jsContent, CommonRegex)

BraceSections == {"printContent function", "common.init function"}

FirstFrom(text, i, t) ==
    LET ps == {p \in i..Len(text) : text[p] = t}
    IN IF ps = {} THEN 0 ELSE Least(ps)

\* the DOM-ready listener of the script, from document.addEventListener(
\* through the '});' after the brace that closes the callback's own block
ListenerBlock(text) ==
    LET from == FirstFrom(text, 1, "document.addEventListener")
        open == FirstFrom(text, from, "{")
        close == ScanLoop(text, open, ScanInit)
    IN SubSeq(text, from, close + 2)

\* occurrences of the lexeme t in a text
Count(text, t) == Cardinality({p \in DOMAIN text : text[p] = t})

\* C25: the DOM-ready part of the Character management section is the
\* complete listener block, from document.addEventListener( through the
\* '});' that closes the listener's own callback, with braces and
\* parentheses balanced, also when the callback holds a nested callback
\* that ends in '});' after the first '.udl-character'.
C25_ListenerComplete ==
    pc = "transformed" =>
        \A k \in DOMAIN sections :
            (/\ sections[k].name = "Character management"
             /\ sections[k].code[1] = "document.addEventListener") =>
                LET block == ListenerBlock(jsContent)
                    code == sections[k].code
                IN /\ Len(code) >= Len(block)
                   /\ SubSeq(code, 1, Len(block)) = block
                   /\ Len(code) > Len(block) => code[Len(block) + 1] = "\n"
                   /\ Count(block, "{") = Count(block, "}")
                   /\ Count(block, "(") = Count(block, ")")

-----------------------------------------------------------------------------
(* The gate of transform()                                                  *)

AnyFlag == \E i \in 1..5 : FiveFlags(analysis.customCode)[i]

\* C26: whenever one of the five feature flags is set after the analysis the
\* complexity is not simple, so that transform() attempts the extraction of
\* every flagged feature: the sections are those that extractCustomCode
\* yields for the analysis.
C26_FlaggedIsNotSimple ==
    /\ (Analysed /\ AnyFlag) => analysis.complexity # "simple"
    /\ (pc = "transformed" /\ AnyFlag) =>
          sections = Field(ExtractCustomCode(analysis), "sec")

\* a style whose only sign is the print helper, on few lines and without
\* functions of its own, was taken for moderate and its section extracted
C26_Witness ==
    /\ pc = "transformed"
    /\ FiveFlags(analysis.customCode) = <<FALSE, FALSE, FALSE, TRUE, FALSE>>
    /\ Len(analysis.customCode.customFunctions) = 1
    /\ analysis.customCode.linesOfCode <= ComplexLines
    /\ analysis.complexity = "moderate"
    /\ sections # <<>>

-----------------------------------------------------------------------------
(* The template in the script returned                                      *)

\* out is the template with a block of n lexemes put in after its first p
\* lexemes and a block put after its end, and nothing else
Inserted(out, template, p, n) ==
    /\ SubSeq(out, 1, p) = SubSeq(template, 1, p)
    /\ SubSeq(out, p + n + 1, n + Len(template)) = SubSeq(template, p + 1, Len(template))

\* C27: integrateCustomCode only inserts: the script returned is the
\* template with the block of the functions put in at one point and the
\* block of the other code put after its end; without these two blocks it is
\* the template text, whose part before the insertion point begins the
\* script and whose part after it follows the block in one piece.  Each
\* block is there only for its sections and begins with its marker.
C27_OnlyInserts ==
    pc = "transformed" =>
        LET extra == Len(content) - Len(Loaded)
        IN /\ extra >= 0
           /\ \E p \in 0..Len(Loaded), n \in 0..extra :
                /\ n > 0 => /\ Bound("myTheme object") # <<>>
                            /\ SubSeq(content, p + 1, p + 3)
                                  = <<"\n", "    ", FunctionsMarker>>
                /\ extra > n => /\ Bound("after main code") # <<>>
                                /\ SubSeq(content, n + Len(Loaded) + 1, n + Len(Loaded) + 2)
                                      = <<"\n", CodeMarker>>
                /\ Inserted(content, Loaded, p, n)

\* both blocks were put in, the first one inside the template
C27_Witness ==
    /\ pc = "transformed"
    /\ Bound("myTheme object") # <<>>
    /\ Bound("after main code") # <<>>
    /\ Has(content, FunctionsMarker)
    /\ Has(content, CodeMarker)
    /\ InsertedAfter < Len(Loaded)
    /\ Len(content) > Len(Loaded)

-----------------------------------------------------------------------------
(* Claims on the browser App                                                *)

\* C28: whenever convert() hands the Map to the converter, the Map holds the
\* complete file set of the most recent upload that finished successfully,
\* and nothing else, under every interleaving of uploads, reads, failed
\* reads and clicks.
C28_ConvertsLoadedSetOnly ==
    \A h \in DOMAIN app.handed :
        app.handed[h].filesMap = app.handed[h].loaded

\* C29: at most one conversion is in flight, and while one is in flight the
\* button is disabled and the spinner shown; with none in flight the
\* spinner is hidden.
C29_OneConversionInFlight ==
    /\ app.inFlight <= 1
    /\ app.inFlight > 0 => (app.disabled /\ app.spinner)
    /\ app.inFlight = 0 => ~app.spinner

-----------------------------------------------------------------------------
(* A conversion that throws                                                 *)

\* C30: if convert() throws at any step, none of style.js, style.css and
\* config.xml has been written for that style.
C30_AllOrNothing ==
    conv.step = "thrown" =>
        conv.written \cap {"style.js", "style.css", "config.xml"} = {}

====
